---------------------------- MODULE Spec2Model ----------------------------
(***************************************************************************)
(* Authentication and authorization flow of the ProjectSCARS central       *)
(* server: the routes of routers/auth_routes (login, refresh, create,      *)
(* invite, resend-invite) and routers/auth_routes/oauth (callback, link,   *)
(* unlink per provider), over the user store.                              *)
(*                                                                         *)
(* Every route is an `async def` whose body never suspends (the OAuth      *)
(* adapters call the blocking httpx API, the store is a synchronous        *)
(* Session), so on the event loop one handler runs from its first line to  *)
(* its commit before another starts: each handler is one action, and the   *)
(* interleavings of concurrent requests are the orders of these actions.   *)
(*                                                                         *)
(* centralserver/internals/auth_handler.py (authenticate_user,             *)
(* create_access_token, verify_access_token, verify_user_permission,       *)
(* oauth_*_authenticate, oauth_*_link) and permissions.py are not part of  *)
(* the source tree at hand; their definitions below follow the design      *)
(* document (spec.md, sections 4.1 to 4.4) and are marked as such.         *)
(***************************************************************************)
EXTENDS Integers, Sequences, FiniteSets, TLC

VARIABLES
    users,       \* the User table: user id -> record, the domain is the ids in use
    roles,       \* the Role table: the role ids that exist
    now,         \* the wall clock, in minutes
    ticks,       \* how many times the clock has advanced
    issued,      \* the tokens the client holds (those of the last response with any)
    configured,  \* the providers whose OAuth adapter is not None
    sessions,    \* the login requests in flight: what each read and will write
    req,         \* the request the last handler served
    resp         \* the response it gave

vars == <<users, roles, now, ticks, issued, configured, sessions, req, resp>>

(***************************************************************************)
(* Bounds of the model.                                                    *)
(***************************************************************************)
\* How many user records the store may hold.
MaxUsers == 3
\* How many times the clock advances in a behaviour.
MaxTicks == 1
\* security.failed_login_lockout_attempts: the threshold N of the lockout.
FailedLoginLockoutAttempts == 2

(***************************************************************************)
(* Configuration.                                                          *)
(***************************************************************************)
\* Authentication.access_token_expire_minutes, the default.
AccessTokenExpireMinutes == 30
\* Authentication.refresh_token_expire_minutes, the default.
RefreshTokenExpireMinutes == 10080
\* security.failed_login_lockout_minutes: how long a lockout lasts.
FailedLoginLockoutMinutes == 15
\* security.failed_login_notify_attempts: failures before the owner is mailed.
FailedLoginNotifyAttempts == 1
\* authentication.otp_nonce_expire_minutes.
OtpNonceExpireMinutes == 5

\* Python's None and a present value.
None == <<>>
Some(x) == <<x>>

\* The login requests that may be in flight together, none begun yet.
Requests == {"r1", "r2"}
NoSessions == [r \in Requests |-> [pc |-> "idle"]]

Providers == {"google", "microsoft", "facebook"}
UserIds == 1..MaxUsers

(***************************************************************************)
(* Roles and permissions (permissions.DEFAULT_ROLES): a lower id is a more *)
(* privileged role.  Roles 1 and 2 may create users, role 3 may not.       *)
(***************************************************************************)
DEFAULT_ROLES == {1, 2, 3}

ROLE_PERMISSIONS(roleId) ==
    CASE roleId = 1 -> {"users:create", "roles:global:read"}
      [] roleId = 2 -> {"users:create"}
      [] OTHER      -> {}

(***************************************************************************)
(* Passwords.  crypt_ctx.hash is salted and one-way: the stored value is   *)
(* never the plaintext, and crypt_ctx.verify accepts exactly the plaintext *)
(* it was made from.                                                       *)
(***************************************************************************)
Hash(plaintext) == <<"bcrypt", plaintext>>

CryptVerify(plaintext, hashed) == hashed = Hash(plaintext)

(***************************************************************************)
(* Tokens.  A token is the encrypted, signed payload {sub, exp, kind}; the *)
(* signature binds the payload to the key of its kind.                     *)
(***************************************************************************)
KeyOf(is_refresh) ==
    IF is_refresh THEN "refresh_signing_secret_key" ELSE "signing_secret_key"

Sign(key, sub, exp, is_refresh) == <<key, sub, exp, is_refresh>>

\* issue(user_id, ttl, kind)
create_access_token(user_id, expiration_td, refresh) ==
    [fmt        |-> "jwe",
     sub        |-> user_id,
     exp        |-> now + expiration_td,
     is_refresh |-> refresh,
     sig        |-> Sign(KeyOf(refresh), user_id, now + expiration_td, refresh)]

\* verify(token): the claims of a well-formed, well-signed, unexpired token,
\* and the failure otherwise.
DecodeToken(token) ==
    IF token.fmt # "jwe"
        THEN [ok |-> FALSE, error |-> "TokenMalformed"]
    ELSE IF token.sig # Sign(KeyOf(token.is_refresh), token.sub, token.exp,
                             token.is_refresh)
        THEN [ok |-> FALSE, error |-> "BadSignature"]
    ELSE IF token.exp <= now
        THEN [ok |-> FALSE, error |-> "TokenExpired"]
    ELSE [ok |-> TRUE, id |-> token.sub, is_refresh_token |-> token.is_refresh]

\* The access-only check every protected route depends on (logged_in_dep):
\* the decoded token, or an HTTP 401 with the reason.
verify_access_token(token) ==
    LET decoded == DecodeToken(token) IN
    IF ~decoded.ok THEN decoded
    ELSE IF decoded.is_refresh_token
        THEN [ok |-> FALSE, error |-> "TokenWrongKind"]
    ELSE decoded


(***************************************************************************)
(* The user store.                                                         *)
(***************************************************************************)
\* Strings are sequences of characters, as validate_username and
\* validate_password read them.
Str_admin == <<"a", "d", "m", "i", "n">>
Str_alice == <<"a", "l", "i", "c", "e">>
Str_bobby == <<"b", "o", "b", "b", "y">>
Str_carol == <<"c", "a", "r", "o", "l">>
\* Too short for validate_username.
Str_bob == <<"b", "o", "b">>
\* Holds a character validate_username refuses.
Str_d_ve == <<"d", "!", "v", "e">>
Str_Secret123A == <<"S", "e", "c", "r", "e", "t", "1", "2", "3", "A">>
Str_Wrong456B == <<"W", "r", "o", "n", "g", "4", "5", "6", "B">>
\* No digit and no uppercase letter: validate_password refuses it.
Str_password == <<"p", "a", "s", "s", "w", "o", "r", "d">>
\* What random.choices(ascii_letters + digits, k=12) may give and
\* validate_password accepts.
Str_x7Kq2mPz9LbT == <<"x", "7", "K", "q", "2", "m", "P", "z", "9", "L", "b", "T">>

Usernames == {Str_admin, Str_alice, Str_bobby}
Passwords == {Str_Secret123A, Str_Wrong456B}
\* request.client.host of the requests modelled (request.client is never None).
ClientHosts == {Some("203.0.113.7")}
\* What uuid.uuid4() returns.
UUIDs == {"uuid-a"}
ExternalIds == {"ext-1", "ext-2"}

\* User(username=, password=, roleId=) with every other column at its default.
NewUser(username, password, roleId, email) ==
    [username            |-> username,
     password            |-> password,
     roleId              |-> roleId,
     email               |-> email,
     lastLoggedInTime    |-> None,
     lastLoggedInIp      |-> None,
     failedLoginAttempts |-> 0,
     lastFailedLoginTime |-> None,
     otpSecret           |-> FALSE,
     otpVerified         |-> FALSE,
     otpNonce            |-> None,
     otpNonceExpires     |-> None,
     oauthLinked         |-> [p \in Providers |-> None]]

\* session.exec(select(User).where(User.username == username)): the ids found.
UsersNamed(store, username) ==
    {id \in DOMAIN store : store[id].username = username}

\* The store with record `id` written (added when new).
Put(store, id, record) ==
    [i \in DOMAIN store \cup {id} |-> IF i = id THEN record ELSE store[i]]

\* The id a new row gets (uuid4 in the code: an id not in use).
FreshId(store) == CHOOSE id \in UserIds \ DOMAIN store : TRUE

(***************************************************************************)
(* Credential verifier: authenticate_user.  The account is looked up by    *)
(* name; a locked account is refused before the password is looked at; a   *)
(* wrong password counts one more consecutive failure, stamps its time and *)
(* commits; the lockout ends FailedLoginLockoutMinutes after the last      *)
(* failure, and the counter starts again; a correct password resets it.    *)
(***************************************************************************)
LockedOut(user) ==
    /\ user.failedLoginAttempts >= FailedLoginLockoutAttempts
    /\ user.lastFailedLoginTime # None
    /\ now < user.lastFailedLoginTime[1] + FailedLoginLockoutMinutes

\* authenticate_user telling an unknown username from a wrong password.
authenticate_user_UnknownUserTold(username, plaintext_password, login_ip) ==
    LET found == UsersNamed(users, username) IN
    IF found = {}
        THEN [ok |-> FALSE, status |-> 404, detail |-> "UserNotFound",
              users |-> users, notify |-> FALSE]
    ELSE
    LET id   == CHOOSE i \in found : TRUE
        user == users[id]
        sofar == IF user.failedLoginAttempts >= FailedLoginLockoutAttempts
                     THEN 0 ELSE user.failedLoginAttempts
    IN
    IF LockedOut(user)
        THEN [ok |-> FALSE, status |-> 429, detail |-> "AccountLocked",
              users |-> users, notify |-> FALSE]
    ELSE IF ~CryptVerify(plaintext_password, user.password)
        THEN [ok |-> FALSE, status |-> 401, detail |-> "InvalidCredentials",
              users |-> Put(users, id,
                            [user EXCEPT !.failedLoginAttempts = sofar + 1,
                                         !.lastFailedLoginTime = Some(now)]),
              notify |-> (sofar + 1 = FailedLoginNotifyAttempts)]
    ELSE [ok |-> TRUE, id |-> id,
          users |-> Put(users, id, [user EXCEPT !.failedLoginAttempts = 0]),
          notify |-> FALSE]

authenticate_user(username, plaintext_password, login_ip) ==
    LET found == UsersNamed(users, username) IN
    IF found = {}
        THEN [ok |-> FALSE, status |-> 401, detail |-> "InvalidCredentials",
              users |-> users, notify |-> FALSE]
    ELSE
    LET id   == CHOOSE i \in found : TRUE
        user == users[id]
        sofar == IF user.failedLoginAttempts >= FailedLoginLockoutAttempts
                     THEN 0 ELSE user.failedLoginAttempts
    IN
    IF LockedOut(user)
        THEN [ok |-> FALSE, status |-> 429, detail |-> "AccountLocked",
              users |-> users, notify |-> FALSE]
    ELSE IF ~CryptVerify(plaintext_password, user.password)
        THEN [ok |-> FALSE, status |-> 401, detail |-> "InvalidCredentials",
              users |-> Put(users, id,
                            [user EXCEPT !.failedLoginAttempts = sofar + 1,
                                         !.lastFailedLoginTime = Some(now)]),
              notify |-> (sofar + 1 = FailedLoginNotifyAttempts)]
    ELSE [ok |-> TRUE, id |-> id,
          users |-> Put(users, id, [user EXCEPT !.failedLoginAttempts = 0]),
          notify |-> FALSE]

(***************************************************************************)
(* POST /auth/login: request_access_token.  JWTToken.uid, a random id no   *)
(* handler reads back, is left out of the response.                        *)
(***************************************************************************)
NoTokens ==
    [access_token |-> None, refresh_token |-> None, otp_nonce |-> None]

\* Mutant: every failure of authenticate_user leaves as 401 invalid credentials.
request_access_token_MergedFailures(username, password, host, remember_me, uuid) ==
    LET auth == authenticate_user(username, password, host) IN
    IF ~auth.ok
        THEN [users |-> auth.users,
              resp  |-> [route |-> "login", status |-> 401,
                         detail |-> "InvalidCredentials", notify |-> auth.notify]
                        @@ NoTokens]
    ELSE
    LET user == auth.users[auth.id] IN
    IF user.otpSecret /\ user.otpVerified
        THEN [users |-> Put(auth.users, auth.id,
                            [user EXCEPT
                                !.otpNonce = Some(uuid),
                                !.otpNonceExpires =
                                    Some(now + OtpNonceExpireMinutes)]),
              resp  |-> [route |-> "login", status |-> 200,
                         detail |-> "MFA OTP is enabled",
                         notify |-> FALSE, access_token |-> None,
                         refresh_token |-> None, otp_nonce |-> Some(uuid)]]
    ELSE [users |-> Put(auth.users, auth.id,
                        [user EXCEPT !.lastLoggedInTime = Some(now),
                                     !.lastLoggedInIp = host]),
          resp  |-> [route |-> "login", status |-> 200, detail |-> "bearer",
                     notify |-> FALSE,
                     access_token |->
                         Some(create_access_token(auth.id,
                                                  AccessTokenExpireMinutes,
                                                  FALSE)),
                     refresh_token |->
                         IF remember_me
                             THEN Some(create_access_token(
                                      auth.id, RefreshTokenExpireMinutes, TRUE))
                             ELSE None,
                     otp_nonce |-> None]]

\* Mutant: the refresh token is created whatever remember_me is.
request_access_token_RefreshAlways(username, password, host, remember_me, uuid) ==
    LET auth == authenticate_user(username, password, host) IN
    IF ~auth.ok
        THEN [users |-> auth.users,
              resp  |-> [route |-> "login", status |-> auth.status,
                         detail |-> auth.detail, notify |-> auth.notify]
                        @@ NoTokens]
    ELSE
    LET user == auth.users[auth.id] IN
    IF user.otpSecret /\ user.otpVerified
        THEN [users |-> Put(auth.users, auth.id,
                            [user EXCEPT
                                !.otpNonce = Some(uuid),
                                !.otpNonceExpires =
                                    Some(now + OtpNonceExpireMinutes)]),
              resp  |-> [route |-> "login", status |-> 200,
                         detail |-> "MFA OTP is enabled",
                         notify |-> FALSE, access_token |-> None,
                         refresh_token |-> None, otp_nonce |-> Some(uuid)]]
    ELSE [users |-> Put(auth.users, auth.id,
                        [user EXCEPT !.lastLoggedInTime = Some(now),
                                     !.lastLoggedInIp = host]),
          resp  |-> [route |-> "login", status |-> 200, detail |-> "bearer",
                     notify |-> FALSE,
                     access_token |->
                         Some(create_access_token(auth.id,
                                                  AccessTokenExpireMinutes,
                                                  FALSE)),
                     refresh_token |->
                         IF TRUE
                             THEN Some(create_access_token(
                                      auth.id, RefreshTokenExpireMinutes, TRUE))
                             ELSE None,
                     otp_nonce |-> None]]

\* Mutant: the refresh flags of the two create_access_token calls are swapped.
request_access_token_KindsSwapped(username, password, host, remember_me, uuid) ==
    LET auth == authenticate_user(username, password, host) IN
    IF ~auth.ok
        THEN [users |-> auth.users,
              resp  |-> [route |-> "login", status |-> auth.status,
                         detail |-> auth.detail, notify |-> auth.notify]
                        @@ NoTokens]
    ELSE
    LET user == auth.users[auth.id] IN
    IF user.otpSecret /\ user.otpVerified
        THEN [users |-> Put(auth.users, auth.id,
                            [user EXCEPT
                                !.otpNonce = Some(uuid),
                                !.otpNonceExpires =
                                    Some(now + OtpNonceExpireMinutes)]),
              resp  |-> [route |-> "login", status |-> 200,
                         detail |-> "MFA OTP is enabled",
                         notify |-> FALSE, access_token |-> None,
                         refresh_token |-> None, otp_nonce |-> Some(uuid)]]
    ELSE [users |-> Put(auth.users, auth.id,
                        [user EXCEPT !.lastLoggedInTime = Some(now),
                                     !.lastLoggedInIp = host]),
          resp  |-> [route |-> "login", status |-> 200, detail |-> "bearer",
                     notify |-> FALSE,
                     access_token |->
                         Some(create_access_token(auth.id,
                                                  AccessTokenExpireMinutes,
                                                  TRUE)),
                     refresh_token |->
                         IF remember_me
                             THEN Some(create_access_token(
                                      auth.id, RefreshTokenExpireMinutes, FALSE))
                             ELSE None,
                     otp_nonce |-> None]]

\* request_access_token that leaves the last-login columns alone.
request_access_token_NoLastLogin(username, password, host, remember_me, uuid) ==
    LET auth == authenticate_user(username, password, host) IN
    IF ~auth.ok
        THEN [users |-> auth.users,
              resp  |-> [route |-> "login", status |-> auth.status,
                         detail |-> auth.detail, notify |-> auth.notify]
                        @@ NoTokens]
    ELSE
    LET user == auth.users[auth.id] IN
    IF user.otpSecret /\ user.otpVerified
        THEN [users |-> Put(auth.users, auth.id,
                            [user EXCEPT
                                !.otpNonce = Some(uuid),
                                !.otpNonceExpires =
                                    Some(now + OtpNonceExpireMinutes)]),
              resp  |-> [route |-> "login", status |-> 200,
                         detail |-> "MFA OTP is enabled",
                         notify |-> FALSE, access_token |-> None,
                         refresh_token |-> None, otp_nonce |-> Some(uuid)]]
    ELSE [users |-> Put(auth.users, auth.id,
                        user),
          resp  |-> [route |-> "login", status |-> 200, detail |-> "bearer",
                     notify |-> FALSE,
                     access_token |->
                         Some(create_access_token(auth.id,
                                                  AccessTokenExpireMinutes,
                                                  FALSE)),
                     refresh_token |->
                         IF remember_me
                             THEN Some(create_access_token(
                                      auth.id, RefreshTokenExpireMinutes, TRUE))
                             ELSE None,
                     otp_nonce |-> None]]

\* request_access_token whose MFA challenge already records the login.
request_access_token_ChallengeCountsAsLogin(username, password, host, remember_me, uuid) ==
    LET auth == authenticate_user(username, password, host) IN
    IF ~auth.ok
        THEN [users |-> auth.users,
              resp  |-> [route |-> "login", status |-> auth.status,
                         detail |-> auth.detail, notify |-> auth.notify]
                        @@ NoTokens]
    ELSE
    LET user == auth.users[auth.id] IN
    IF user.otpSecret /\ user.otpVerified
        THEN [users |-> Put(auth.users, auth.id,
                            [user EXCEPT
                                !.otpNonce = Some(uuid),
                                !.lastLoggedInTime = Some(now),
                                !.lastLoggedInIp = host,
                                !.otpNonceExpires =
                                    Some(now + OtpNonceExpireMinutes)]),
              resp  |-> [route |-> "login", status |-> 200,
                         detail |-> "MFA OTP is enabled",
                         notify |-> FALSE, access_token |-> None,
                         refresh_token |-> None, otp_nonce |-> Some(uuid)]]
    ELSE [users |-> Put(auth.users, auth.id,
                        [user EXCEPT !.lastLoggedInTime = Some(now),
                                     !.lastLoggedInIp = host]),
          resp  |-> [route |-> "login", status |-> 200, detail |-> "bearer",
                     notify |-> FALSE,
                     access_token |->
                         Some(create_access_token(auth.id,
                                                  AccessTokenExpireMinutes,
                                                  FALSE)),
                     refresh_token |->
                         IF remember_me
                             THEN Some(create_access_token(
                                      auth.id, RefreshTokenExpireMinutes, TRUE))
                             ELSE None,
                     otp_nonce |-> None]]

request_access_token(username, password, host, remember_me, uuid) ==
    LET auth == authenticate_user(username, password, host) IN
    IF ~auth.ok
        THEN [users |-> auth.users,
              resp  |-> [route |-> "login", status |-> auth.status,
                         detail |-> auth.detail, notify |-> auth.notify]
                        @@ NoTokens]
    ELSE
    LET user == auth.users[auth.id] IN
    IF user.otpSecret /\ user.otpVerified
        THEN [users |-> Put(auth.users, auth.id,
                            [user EXCEPT
                                !.otpNonce = Some(uuid),
                                !.otpNonceExpires =
                                    Some(now + OtpNonceExpireMinutes)]),
              resp  |-> [route |-> "login", status |-> 200,
                         detail |-> "MFA OTP is enabled",
                         notify |-> FALSE, access_token |-> None,
                         refresh_token |-> None, otp_nonce |-> Some(uuid)]]
    ELSE [users |-> Put(auth.users, auth.id,
                        [user EXCEPT !.lastLoggedInTime = Some(now),
                                     !.lastLoggedInIp = host]),
          resp  |-> [route |-> "login", status |-> 200, detail |-> "bearer",
                     notify |-> FALSE,
                     access_token |->
                         Some(create_access_token(auth.id,
                                                  AccessTokenExpireMinutes,
                                                  FALSE)),
                     refresh_token |->
                         IF remember_me
                             THEN Some(create_access_token(
                                      auth.id, RefreshTokenExpireMinutes, TRUE))
                             ELSE None,
                     otp_nonce |-> None]]

(***************************************************************************)
(* POST /auth/refresh: refresh_access_token.  Whatever is raised inside    *)
(* the try block leaves as 401 "Invalid or expired refresh token."         *)
(***************************************************************************)
\* Mutant: the subject of the token is not looked up again.
refresh_access_token_NoUserCheck(refresh_token) ==
    LET decoded_token == verify_access_token(refresh_token)
        refused == [route |-> "refresh", status |-> 401,
                    detail |-> "Invalid or expired refresh token.",
                    notify |-> FALSE] @@ NoTokens
    IN
    IF ~decoded_token.ok THEN refused
    ELSE [route |-> "refresh", status |-> 200, detail |-> "bearer",
          notify |-> FALSE,
          access_token |->
              Some(create_access_token(decoded_token.id,
                                       AccessTokenExpireMinutes, FALSE)),
          refresh_token |-> Some(refresh_token),
          otp_nonce |-> None]

\* Mutant: the claims are read from the token without verifying it.
refresh_access_token_Unverified(refresh_token) ==
    LET decoded_token == [ok |-> refresh_token.fmt = "jwe",
                          id |-> refresh_token.sub]
        refused == [route |-> "refresh", status |-> 401,
                    detail |-> "Invalid or expired refresh token.",
                    notify |-> FALSE] @@ NoTokens
    IN
    IF ~decoded_token.ok THEN refused
    ELSE IF decoded_token.id \notin DOMAIN users THEN refused
    ELSE [route |-> "refresh", status |-> 200, detail |-> "bearer",
          notify |-> FALSE,
          access_token |->
              Some(create_access_token(decoded_token.id,
                                       AccessTokenExpireMinutes, FALSE)),
          refresh_token |-> Some(refresh_token),
          otp_nonce |-> None]

refresh_access_token(refresh_token) ==
    LET decoded_token == verify_access_token(refresh_token)
        refused == [route |-> "refresh", status |-> 401,
                    detail |-> "Invalid or expired refresh token.",
                    notify |-> FALSE] @@ NoTokens
    IN
    IF ~decoded_token.ok THEN refused
    ELSE IF decoded_token.id \notin DOMAIN users THEN refused
    ELSE [route |-> "refresh", status |-> 200, detail |-> "bearer",
          notify |-> FALSE,
          access_token |->
              Some(create_access_token(decoded_token.id,
                                       AccessTokenExpireMinutes, FALSE)),
          refresh_token |-> Some(refresh_token),
          otp_nonce |-> None]

(***************************************************************************)
(* The client.  It remembers each token it was issued with what it was     *)
(* issued for: the account, the kind of the response field it came in, the *)
(* time and the lifetime.  It holds the tokens of the last response that   *)
(* issued any.  What it may present as a token: a token it holds, such a   *)
(* token with its kind flipped, a token signed with a key of its own, or   *)
(* bytes that are no token.                                                *)
(***************************************************************************)
Issued(token, sub, refresh, ttl) ==
    [token |-> token, sub |-> sub, refresh |-> refresh, issued_at |-> now,
     ttl |-> ttl]

Garbage ==
    [fmt |-> "garbage", sub |-> 1, exp |-> 0, is_refresh |-> FALSE,
     sig |-> <<>>]

Tampered(token) == [token EXCEPT !.is_refresh = ~token.is_refresh]

Forged(sub, is_refresh) ==
    [fmt |-> "jwe", sub |-> sub, exp |-> now + RefreshTokenExpireMinutes,
     is_refresh |-> is_refresh,
     sig |-> Sign("attacker_key", sub, now + RefreshTokenExpireMinutes,
                  is_refresh)]

HeldTokens == {e.token : e \in issued}

PresentableTokens ==
    HeldTokens \cup {Tampered(t) : t \in HeldTokens}
               \cup {Forged(1, k) : k \in BOOLEAN} \cup {Garbage}

\* What the client notes of a response that carries tokens for account `sub`.
IssuedBy(response, sub) ==
    {Issued(response.access_token[i], sub, FALSE, AccessTokenExpireMinutes) :
        i \in DOMAIN response.access_token}
    \cup
    {Issued(response.refresh_token[i], sub, TRUE, RefreshTokenExpireMinutes) :
        i \in DOMAIN response.refresh_token}

Keep(held, given) == IF given = {} THEN held ELSE given

(***************************************************************************)
(* Actions of the login and refresh flow.                                  *)
(***************************************************************************)
LoginWith(passwords) ==
    \E username \in Usernames, password \in passwords, host \in ClientHosts,
       remember_me \in BOOLEAN, uuid \in UUIDs :
        LET r == request_access_token(username, password, host, remember_me,
                                      uuid) IN
        /\ req' = [route |-> "login", username |-> username,
                   password |-> password, host |-> host,
                   remember_me |-> remember_me]
        /\ users' = r.users
        /\ resp' = r.resp
        /\ issued' = Keep(issued,
                          UNION {IssuedBy(r.resp, id) :
                                    id \in UsersNamed(users, username)})
        /\ UNCHANGED <<roles, now, ticks, configured, sessions>>

Login == LoginWith(Passwords)

\* The response echoes the token presented; only the access token is new.
Refresh ==
    \E token \in PresentableTokens :
        LET r == refresh_access_token(token) IN
        /\ req' = [route |-> "refresh", token |-> token]
        /\ resp' = r
        /\ issued' = IF r.status = 200
                         THEN {e \in issued : e.token = token}
                              \cup IssuedBy([r EXCEPT !.refresh_token = None],
                                            token.sub)
                         ELSE issued
        /\ UNCHANGED <<users, roles, now, ticks, configured, sessions>>

\* Time passes: by a lockout period (half an access token's lifetime), or to
\* one minute past a refresh token's lifetime.
Tick ==
    \E minutes \in {FailedLoginLockoutMinutes, RefreshTokenExpireMinutes + 1} :
        /\ ticks < MaxTicks
        /\ ticks' = ticks + 1
        /\ now' = now + minutes
        /\ req' = [route |-> "tick", minutes |-> minutes]
        /\ resp' = [route |-> "tick", status |-> 0]
        /\ UNCHANGED <<users, roles, issued, configured, sessions>>

\* An administrator removes a user record (the users router).
DeleteUser ==
    \E id \in DOMAIN users :
        /\ users' = [i \in DOMAIN users \ {id} |-> users[i]]
        /\ req' = [route |-> "delete_user", id |-> id]
        /\ resp' = [route |-> "delete_user", status |-> 200]
        /\ UNCHANGED <<roles, now, ticks, issued, configured, sessions>>

(***************************************************************************)
(* The store after populate_db (the default roles, the default user with   *)
(* role 1) and after an account "alice" with role 2 was added, with or     *)
(* without a verified OTP secret.                                          *)
(***************************************************************************)
DefaultUser == NewUser(Str_admin, Hash(Str_Secret123A), 1, None)

Alice(otp) ==
    [NewUser(Str_alice, Hash(Str_Secret123A), 2, Some("alice@example.org"))
        EXCEPT !.otpSecret = otp, !.otpVerified = otp]

NoRequest == [route |-> "none"]
NoResponse == [route |-> "none", status |-> 0]

Init ==
    /\ \E otp \in BOOLEAN : users = (1 :> DefaultUser) @@ (2 :> Alice(otp))
    /\ roles = DEFAULT_ROLES
    /\ now = 0
    /\ ticks = 0
    /\ issued = {}
    /\ configured = Providers
    /\ sessions = NoSessions
    /\ req = NoRequest
    /\ resp = NoResponse

Next == Login \/ Refresh \/ Tick \/ DeleteUser

Spec == Init /\ [][Next]_vars

(***************************************************************************)
(* user_handler: validate_username, validate_password, create_user.        *)
(***************************************************************************)
Digits == {"0", "1", "2", "3", "4", "5", "6", "7", "8", "9"}
LowerCase ==
    {"a", "b", "c", "d", "e", "f", "g", "h", "i", "j", "k", "l", "m",
     "n", "o", "p", "q", "r", "s", "t", "u", "v", "w", "x", "y", "z"}
UpperCase ==
    {"A", "B", "C", "D", "E", "F", "G", "H", "I", "J", "K", "L", "M",
     "N", "O", "P", "Q", "R", "S", "T", "U", "V", "W", "X", "Y", "Z"}

validate_username(username) ==
    /\ \A i \in DOMAIN username :
          \/ username[i] \in Digits \cup LowerCase \cup UpperCase
          \/ username[i] \in {"_", "-"}
    /\ Len(username) > 3
    /\ Len(username) < 22

validate_password(password) ==
    /\ Len(password) >= 8
    /\ \E i \in DOMAIN password : password[i] \in Digits
    /\ \E i \in DOMAIN password : password[i] \in LowerCase
    /\ \E i \in DOMAIN password : password[i] \in UpperCase

\* create_user storing the password as it was given.
create_user_StoresPlaintext(store, new_user) ==
    IF UsersNamed(store, new_user.username) # {}
        THEN [ok |-> FALSE, status |-> 409, failed |-> "username_taken",
              detail |-> "Username already exists", users |-> store]
    ELSE IF ~validate_username(new_user.username)
        THEN [ok |-> FALSE, status |-> 400, failed |-> "username_invalid",
              detail |-> "Invalid username", users |-> store]
    ELSE IF ~validate_password(new_user.password)
        THEN [ok |-> FALSE, status |-> 400, failed |-> "password_invalid",
              detail |-> "Invalid password format", users |-> store]
    ELSE [ok |-> TRUE, status |-> 201, failed |-> "none",
          detail |-> "created", id |-> FreshId(store),
          users |-> Put(store, FreshId(store),
                        NewUser(new_user.username, new_user.password,
                                new_user.roleId, None))]

\* create_user(new_user, session): the store it leaves and what it raises.
\* The routes pass further arguments (background tasks, email_verified)
\* that this function does not take; the record it stores has no email.
create_user(store, new_user) ==
    IF UsersNamed(store, new_user.username) # {}
        THEN [ok |-> FALSE, status |-> 409, failed |-> "username_taken",
              detail |-> "Username already exists", users |-> store]
    ELSE IF ~validate_username(new_user.username)
        THEN [ok |-> FALSE, status |-> 400, failed |-> "username_invalid",
              detail |-> "Invalid username", users |-> store]
    ELSE IF ~validate_password(new_user.password)
        THEN [ok |-> FALSE, status |-> 400, failed |-> "password_invalid",
              detail |-> "Invalid password format", users |-> store]
    ELSE [ok |-> TRUE, status |-> 201, failed |-> "none",
          detail |-> "created", id |-> FreshId(store),
          users |-> Put(store, FreshId(store),
                        NewUser(new_user.username, Hash(new_user.password),
                                new_user.roleId, None))]

(***************************************************************************)
(* Permission gate: verify_user_permission.  The role of the token's user  *)
(* is looked up and the permission sought in the set of that role.         *)
(***************************************************************************)
verify_user_permission(permission, store, token) ==
    /\ token.id \in DOMAIN store
    /\ permission \in ROLE_PERMISSIONS(store[token.id].roleId)

(***************************************************************************)
(* The protected routes of auth_routes.  A route answers with the status   *)
(* and detail of the HTTPException raised, or with its result; `failed`    *)
(* names the step that raised, `mail` the message left to the background   *)
(* tasks.                                                                  *)
(***************************************************************************)
\* The gates a route had passed when the step named raised: the token
\* verifier first, the permission gate second, the other steps after both.
GatesBefore(failed) ==
    IF failed = "token" THEN {}
    ELSE IF failed = "permission" THEN {"token"}
    ELSE {"token", "permission"}

Refused(route, status, failed, detail) ==
    [route |-> route, status |-> status, failed |-> failed,
     detail |-> detail, mail |-> None, gates |-> GatesBefore(failed)]

\* logged_in_dep: Depends(verify_access_token) raised before the route ran.
Unauthorized(route) == Refused(route, 401, "token", "Unauthorized")

\* create_new_user without the comparison of the two role ids.
create_new_user_NoRankCheck(new_user, bearer) ==
    LET token == verify_access_token(bearer) IN
    IF ~token.ok
        THEN [users |-> users, resp |-> Unauthorized("create")]
    ELSE IF ~verify_user_permission("users:create", users, token)
        THEN [users |-> users,
              resp |-> Refused("create", 403, "permission",
                         "You do not have permission to create a user.")]
    ELSE IF token.id \notin DOMAIN users
        THEN [users |-> users,
              resp |-> Refused("create", 403, "requester", "User not found.")]
    ELSE IF new_user.roleId \notin roles
        THEN [users |-> users,
              resp |-> Refused("create", 400, "role_exists",
                               "Invalid role ID provided.")]
    ELSE
    LET created == create_user(users, new_user) IN
    IF ~created.ok
        THEN [users |-> created.users,
              resp |-> Refused("create", created.status, created.failed,
                               created.detail)]
    ELSE [users |-> created.users,
          resp |-> [route |-> "create", status |-> 201, failed |-> "none",
                    gates |-> GatesBefore("none"),
                    detail |-> "created", mail |-> None]]

\* POST /auth/create
create_new_user(new_user, bearer) ==
    LET token == verify_access_token(bearer) IN
    IF ~token.ok
        THEN [users |-> users, resp |-> Unauthorized("create")]
    ELSE IF ~verify_user_permission("users:create", users, token)
        THEN [users |-> users,
              resp |-> Refused("create", 403, "permission",
                         "You do not have permission to create a user.")]
    ELSE IF token.id \notin DOMAIN users
        THEN [users |-> users,
              resp |-> Refused("create", 403, "requester", "User not found.")]
    ELSE IF new_user.roleId \notin roles
        THEN [users |-> users,
              resp |-> Refused("create", 400, "role_exists",
                               "Invalid role ID provided.")]
    ELSE IF new_user.roleId < users[token.id].roleId
        THEN [users |-> users,
              resp |-> Refused("create", 403, "role_rank",
                "You do not have permission to create a user with this role.")]
    ELSE
    LET created == create_user(users, new_user) IN
    IF ~created.ok
        THEN [users |-> created.users,
              resp |-> Refused("create", created.status, created.failed,
                               created.detail)]
    ELSE [users |-> created.users,
          resp |-> [route |-> "create", status |-> 201, failed |-> "none",
                    gates |-> GatesBefore("none"),
                    detail |-> "created", mail |-> None]]

\* invite_user writing the record before the role ids are compared.
invite_user_CreatesFirst(new_user, bearer, genpass) ==
    LET token == verify_access_token(bearer) IN
    IF ~token.ok
        THEN [users |-> users, resp |-> Unauthorized("invite")]
    ELSE IF ~verify_user_permission("users:create", users, token)
        THEN [users |-> users,
              resp |-> Refused("invite", 403, "permission",
                         "You do not have permission to invite a user.")]
    ELSE IF token.id \notin DOMAIN users
        THEN [users |-> users,
              resp |-> Refused("invite", 403, "requester", "User not found.")]
    ELSE IF new_user.roleId \notin roles
        THEN [users |-> users,
              resp |-> Refused("invite", 400, "role_exists",
                               "Invalid role ID provided.")]
    ELSE IF new_user.roleId < users[token.id].roleId
        THEN [users |-> create_user(users,
                            [new_user EXCEPT !.password = genpass]).users,
              resp |-> Refused("invite", 403, "role_rank",
                "You do not have permission to invite a user with this role.")]
    ELSE
    LET created == create_user(users, [new_user EXCEPT !.password = genpass])
    IN
    IF ~created.ok
        THEN [users |-> created.users,
              resp |-> Refused("invite", created.status, created.failed,
                               created.detail)]
    ELSE [users |-> created.users,
          resp |-> [route |-> "invite", status |-> 200, failed |-> "none",
                    gates |-> GatesBefore("none"),
                    detail |-> "invited",
                    mail |-> Some([to |-> new_user.email,
                                   username |-> new_user.username,
                                   password |-> genpass])]]

\* POST /auth/invite.  genpass is the random password the route generated;
\* the HTTPException of create_user is not one the except clause catches.
invite_user(new_user, bearer, genpass) ==
    LET token == verify_access_token(bearer) IN
    IF ~token.ok
        THEN [users |-> users, resp |-> Unauthorized("invite")]
    ELSE IF ~verify_user_permission("users:create", users, token)
        THEN [users |-> users,
              resp |-> Refused("invite", 403, "permission",
                         "You do not have permission to invite a user.")]
    ELSE IF token.id \notin DOMAIN users
        THEN [users |-> users,
              resp |-> Refused("invite", 403, "requester", "User not found.")]
    ELSE IF new_user.roleId \notin roles
        THEN [users |-> users,
              resp |-> Refused("invite", 400, "role_exists",
                               "Invalid role ID provided.")]
    ELSE IF new_user.roleId < users[token.id].roleId
        THEN [users |-> users,
              resp |-> Refused("invite", 403, "role_rank",
                "You do not have permission to invite a user with this role.")]
    ELSE
    LET created == create_user(users, [new_user EXCEPT !.password = genpass])
    IN
    IF ~created.ok
        THEN [users |-> created.users,
              resp |-> Refused("invite", created.status, created.failed,
                               created.detail)]
    ELSE [users |-> created.users,
          resp |-> [route |-> "invite", status |-> 200, failed |-> "none",
                    gates |-> GatesBefore("none"),
                    detail |-> "invited",
                    mail |-> Some([to |-> new_user.email,
                                   username |-> new_user.username,
                                   password |-> genpass])]]

\* resend_user_invitation without the test of the last-login time.
resend_user_invitation_AfterLogin(user_id, bearer, genpass) ==
    LET token == verify_access_token(bearer) IN
    IF ~token.ok
        THEN [users |-> users, resp |-> Unauthorized("resend")]
    ELSE IF ~verify_user_permission("users:create", users, token)
        THEN [users |-> users,
              resp |-> Refused("resend", 403, "permission",
                  "You do not have permission to resend user invitations.")]
    ELSE IF token.id \notin DOMAIN users
        THEN [users |-> users,
              resp |-> Refused("resend", 403, "requester", "User not found.")]
    ELSE IF user_id \notin DOMAIN users
        THEN [users |-> users,
              resp |-> Refused("resend", 404, "target",
                               "Target user not found.")]
    ELSE IF users[user_id].email = None
        THEN [users |-> users,
              resp |-> Refused("resend", 400, "email",
                               "User does not have an email address.")]
    ELSE IF FALSE
        THEN [users |-> users,
              resp |-> Refused("resend", 400, "logged_in",
                  "User has already logged in. Cannot resend invitation.")]
    ELSE IF users[user_id].roleId < users[token.id].roleId
        THEN [users |-> users,
              resp |-> Refused("resend", 403, "role_rank",
                  "You do not have permission to resend invitation for a user with this role.")]
    ELSE [users |-> Put(users, user_id,
                        [users[user_id] EXCEPT !.password = Hash(genpass)]),
          resp |-> [route |-> "resend", status |-> 200, failed |-> "none",
                    gates |-> GatesBefore("none"),
                    detail |-> "resent",
                    mail |-> Some([to |-> users[user_id].email,
                                   username |-> users[user_id].username,
                                   password |-> genpass])]]

\* POST /auth/resend-invite
resend_user_invitation(user_id, bearer, genpass) ==
    LET token == verify_access_token(bearer) IN
    IF ~token.ok
        THEN [users |-> users, resp |-> Unauthorized("resend")]
    ELSE IF ~verify_user_permission("users:create", users, token)
        THEN [users |-> users,
              resp |-> Refused("resend", 403, "permission",
                  "You do not have permission to resend user invitations.")]
    ELSE IF token.id \notin DOMAIN users
        THEN [users |-> users,
              resp |-> Refused("resend", 403, "requester", "User not found.")]
    ELSE IF user_id \notin DOMAIN users
        THEN [users |-> users,
              resp |-> Refused("resend", 404, "target",
                               "Target user not found.")]
    ELSE IF users[user_id].email = None
        THEN [users |-> users,
              resp |-> Refused("resend", 400, "email",
                               "User does not have an email address.")]
    ELSE IF users[user_id].lastLoggedInTime # None
        THEN [users |-> users,
              resp |-> Refused("resend", 400, "logged_in",
                  "User has already logged in. Cannot resend invitation.")]
    ELSE IF users[user_id].roleId < users[token.id].roleId
        THEN [users |-> users,
              resp |-> Refused("resend", 403, "role_rank",
                  "You do not have permission to resend invitation for a user with this role.")]
    ELSE [users |-> Put(users, user_id,
                        [users[user_id] EXCEPT !.password = Hash(genpass)]),
          resp |-> [route |-> "resend", status |-> 200, failed |-> "none",
                    gates |-> GatesBefore("none"),
                    detail |-> "resent",
                    mail |-> Some([to |-> users[user_id].email,
                                   username |-> users[user_id].username,
                                   password |-> genpass])]]

(***************************************************************************)
(* The account routes.  A client logs in with its password and then calls  *)
(* the protected routes with a token it holds, with a token of the wrong   *)
(* signature, or with no token at all.                                     *)
(***************************************************************************)
RequestTokens == HeldTokens \cup {Forged(1, FALSE), Garbage}

\* new_user.roleId: 0 names no role.
RoleIds == 0..3

NewUsernames == {Str_admin, Str_bobby, Str_bob}
NewPasswords == {Str_Secret123A, Str_password}
GeneratedPasswords == {Str_x7Kq2mPz9LbT}

LoginOk == LoginWith({Str_Secret123A})

CreateNewUser ==
    \E bearer \in RequestTokens, username \in NewUsernames,
       password \in NewPasswords, roleId \in RoleIds :
        LET new_user == [username |-> username, password |-> password,
                         roleId |-> roleId, email |-> None]
            r == create_new_user(new_user, bearer)
        IN
        /\ DOMAIN r.users \subseteq UserIds
        /\ req' = [route |-> "create", token |-> bearer,
                   new_user |-> new_user]
        /\ users' = r.users
        /\ resp' = r.resp
        /\ UNCHANGED <<roles, now, ticks, issued, configured, sessions>>

InviteUser ==
    \E bearer \in RequestTokens, username \in NewUsernames,
       roleId \in RoleIds, genpass \in GeneratedPasswords :
        LET new_user == [username |-> username, password |-> None,
                         roleId |-> roleId,
                         email |-> Some("invited@example.org")]
            r == invite_user(new_user, bearer, genpass)
        IN
        /\ DOMAIN r.users \subseteq UserIds
        /\ req' = [route |-> "invite", token |-> bearer,
                   new_user |-> new_user]
        /\ users' = r.users
        /\ resp' = r.resp
        /\ UNCHANGED <<roles, now, ticks, issued, configured, sessions>>

ResendUserInvitation ==
    \E bearer \in RequestTokens, user_id \in UserIds,
       genpass \in GeneratedPasswords :
        LET r == resend_user_invitation(user_id, bearer, genpass) IN
        /\ req' = [route |-> "resend", token |-> bearer, user_id |-> user_id]
        /\ users' = r.users
        /\ resp' = r.resp
        /\ UNCHANGED <<roles, now, ticks, issued, configured, sessions>>

\* The store after populate_db and after "alice" (role 2) was invited: she
\* has an email address and has not logged in yet.
InitUsers ==
    /\ users = (1 :> DefaultUser) @@ (2 :> Alice(FALSE))
    /\ roles = DEFAULT_ROLES
    /\ now = 0
    /\ ticks = 0
    /\ issued = {}
    /\ configured = Providers
    /\ sessions = NoSessions
    /\ req = NoRequest
    /\ resp = NoResponse

NextUsers == LoginOk \/ CreateNewUser \/ InviteUser \/ ResendUserInvitation

SpecUsers == InitUsers /\ [][NextUsers]_vars

(***************************************************************************)
(* OAuth.  adapters/oauth.py exchanges the authorization code for the      *)
(* profile the provider holds; which profile a code stands for is the      *)
(* provider's affair.  The bridge (oauth_<provider>_authenticate and       *)
(* oauth_<provider>_link of auth_handler) follows the design document; the *)
(* three providers differ in the linkage field they read and write only.   *)
(***************************************************************************)
Codes == {"code-1", "code-2"}

\* dict.get(key, None)
Get(section, key) ==
    IF key \in DOMAIN section THEN Some(section[key]) ELSE None

\* What httpx.post and httpx.get come back with: the response of the
\* provider, whatever its status, or the timeout httpx raises.
Response(status, body) ==
    [outcome |-> "response", status |-> status, body |-> body]

TimedOut == [outcome |-> "timeout"]

\* exchange_code_for_token of the three adapters.  `post` is what the token
\* endpoint does with the code, `get` what the profile endpoint does with
\* each bearer token.  Neither status is looked at.
exchange_code_for_token(provider, code, post, get) ==
    IF post.outcome = "timeout"
        THEN [raised |-> "httpx.TimeoutException", returned |-> None]
    ELSE
    LET access_token == Get(post.body, "access_token")
        user_info    == get[access_token]
    IN
    IF user_info.outcome = "timeout"
        THEN [raised |-> "httpx.TimeoutException", returned |-> None]
    ELSE [raised |-> "none", returned |-> Some(user_info.body)]

\* The provider: the access token it grants for a code, the profile it
\* holds for an access token, and its answer to a request without one.
AccessTokenFor(code) == IF code = "code-1" THEN "at-1" ELSE "at-2"

ExternalIdFor(code) == IF code = "code-1" THEN "ext-1" ELSE "ext-2"

InvalidToken == Response(401, [error |-> "invalid_token"])

TokenEndpoint(code) == Response(200, [access_token |-> AccessTokenFor(code)])

ProfileEndpoint(code, answer) ==
    [bearer \in {None, Some(AccessTokenFor(code))} |->
        IF bearer = None THEN InvalidToken ELSE answer]

\* The profile the adapter returns when the provider answers both calls.
Profile(provider, code) ==
    exchange_code_for_token(
        provider, code, TokenEndpoint(code),
        ProfileEndpoint(code, Response(200, [id |-> ExternalIdFor(code)]))
    ).returned[1]

\* The local users holding the external id for the provider.
LinkedUsers(store, provider, external_id) ==
    {id \in DOMAIN store : store[id].oauthLinked[provider] = Some(external_id)}

\* link(code, current_user_id) attaching the id without looking for holders.
oauth_link_NoConflictCheck(provider, code, user_id) ==
    LET profile == Profile(provider, code) IN
    IF user_id \notin DOMAIN users
        THEN [linked |-> FALSE, users |-> users]
    ELSE [linked |-> TRUE,
          users |-> Put(users, user_id,
                        [users[user_id] EXCEPT
                            !.oauthLinked[provider] = Some(profile.id)])]

\* link(code, current_user_id) refusing an external id that the user holds already.
oauth_link_HolderConflicts(provider, code, user_id) ==
    LET profile == Profile(provider, code) IN
    IF user_id \notin DOMAIN users
        THEN [linked |-> FALSE, users |-> users]
    ELSE IF LinkedUsers(users, provider, profile.id) # {}
        THEN [linked |-> FALSE, users |-> users]
    ELSE [linked |-> TRUE,
          users |-> Put(users, user_id,
                        [users[user_id] EXCEPT
                            !.oauthLinked[provider] = Some(profile.id)])]

\* link(code, current_user_id): exchange the code, verify that no other
\* local user holds the (provider, external id) pair, attach the id.
oauth_link(provider, code, user_id) ==
    LET profile == Profile(provider, code) IN
    IF user_id \notin DOMAIN users
        THEN [linked |-> FALSE, users |-> users]
    ELSE IF LinkedUsers(users, provider, profile.id) \ {user_id} # {}
        THEN [linked |-> FALSE, users |-> users]
    ELSE [linked |-> TRUE,
          users |-> Put(users, user_id,
                        [users[user_id] EXCEPT
                            !.oauthLinked[provider] = Some(profile.id)])]

\* authenticate(code) linking the profile to the default user when no local
\* user holds it.
oauth_authenticate_AutoLinks(provider, code) ==
    LET profile == Profile(provider, code)
        found   == LinkedUsers(users, provider, profile.id)
    IN
    IF found = {}
        THEN [status |-> 200,
              payload |-> [type |-> "JWTToken",
                           access_token |->
                               create_access_token(1,
                                   AccessTokenExpireMinutes, FALSE)],
              users |-> Put(users, 1,
                            [users[1] EXCEPT
                                !.oauthLinked[provider] = Some(profile.id)])]
    ELSE LET id == CHOOSE u \in found : TRUE IN
         [status |-> 200,
          payload |-> [type |-> "JWTToken",
                       access_token |->
                           create_access_token(id, AccessTokenExpireMinutes,
                                               FALSE)],
          users |-> users]

\* authenticate(code): exchange the code, find the local user by the
\* provider's linkage id; tokens if found, "not linked" otherwise.
oauth_authenticate(provider, code) ==
    LET profile == Profile(provider, code)
        found   == LinkedUsers(users, provider, profile.id)
    IN
    IF found = {}
        THEN [status |-> 404,
              payload |-> [type |-> "str", detail |-> "NotLinked"],
              users |-> users]
    ELSE LET id == CHOOSE u \in found : TRUE IN
         [status |-> 200,
          payload |-> [type |-> "JWTToken",
                       access_token |->
                           create_access_token(id, AccessTokenExpireMinutes,
                                               FALSE)],
          users |-> users]

\* The OAuth routes call no permission gate; the link and unlink routes
\* depend on the token verifier, which answers 401, the callback on nothing.
OAuthGates(route, status) ==
    IF route = "oauth_callback" \/ status = 401 THEN {} ELSE {"token"}

OAuthRefused(route, provider, status, detail) ==
    [route |-> route, provider |-> provider, status |-> status,
     detail |-> detail, access_token |-> None, refresh_token |-> None,
     gates |-> OAuthGates(route, status)]

NotConfigured(route, provider) ==
    OAuthRefused(route, provider, 501, "OAuth is not configured.")

\* GET /oauth/<provider>/callback
oauth_callback(provider, code) ==
    IF provider \notin configured
        THEN [users |-> users,
              resp |-> NotConfigured("oauth_callback", provider)]
    ELSE
    LET result == oauth_authenticate(provider, code) IN
    IF result.status # 200
        THEN [users |-> result.users,
              resp |-> OAuthRefused("oauth_callback", provider,
                                    result.status, result.payload.detail)]
    ELSE IF result.payload.type = "JWTToken"
        THEN [users |-> result.users,
              resp |-> [route |-> "oauth_callback", provider |-> provider,
                        gates |-> OAuthGates("oauth_callback", 200),
                        status |-> 200, detail |-> "bearer",
                        access_token |-> Some(result.payload.access_token),
                        refresh_token |-> None]]
    ELSE [users |-> result.users,
          resp |-> OAuthRefused("oauth_callback", provider, 500,
                       "Unexpected response from OAuth authentication.")]

\* GET /oauth/<provider>/link
oauth_link_provider(provider, code, bearer) ==
    LET token == verify_access_token(bearer) IN
    IF ~token.ok
        THEN [users |-> users,
              resp |-> OAuthRefused("oauth_link", provider, 401,
                                    "Unauthorized")]
    ELSE IF provider \notin configured
        THEN [users |-> users, resp |-> NotConfigured("oauth_link", provider)]
    ELSE
    LET result == oauth_link(provider, code, token.id) IN
    IF result.linked
        THEN [users |-> result.users,
              resp |-> [route |-> "oauth_link", provider |-> provider,
                        gates |-> OAuthGates("oauth_link", 200),
                        status |-> 200,
                        detail |-> "Account linked successfully.",
                        access_token |-> None, refresh_token |-> None]]
    ELSE [users |-> result.users,
          resp |-> OAuthRefused("oauth_link", provider, 400,
                       "Failed to link account. Please try again.")]

\* The unlink route clearing the password with the linkage.
oauth_unlink_provider_ClearsPassword(provider, bearer) ==
    LET token == verify_access_token(bearer) IN
    IF ~token.ok
        THEN [users |-> users,
              resp |-> OAuthRefused("oauth_unlink", provider, 401,
                                    "Unauthorized")]
    ELSE IF provider \notin configured
        THEN [users |-> users,
              resp |-> NotConfigured("oauth_unlink", provider)]
    ELSE IF token.id \notin DOMAIN users
        THEN [users |-> users,
              resp |-> OAuthRefused("oauth_unlink", provider, 404,
                                    "User not found.")]
    ELSE [users |-> Put(users, token.id,
                        [users[token.id] EXCEPT
                            !.oauthLinked[provider] = None,
                            !.password = None]),
          resp |-> [route |-> "oauth_unlink", provider |-> provider,
                    gates |-> OAuthGates("oauth_unlink", 200),
                    status |-> 200,
                    detail |-> "Account unlinked successfully.",
                    access_token |-> None, refresh_token |-> None]]

\* The unlink route clearing the linkage of every provider.
oauth_unlink_provider_ClearsAll(provider, bearer) ==
    LET token == verify_access_token(bearer) IN
    IF ~token.ok
        THEN [users |-> users,
              resp |-> OAuthRefused("oauth_unlink", provider, 401,
                                    "Unauthorized")]
    ELSE IF provider \notin configured
        THEN [users |-> users,
              resp |-> NotConfigured("oauth_unlink", provider)]
    ELSE IF token.id \notin DOMAIN users
        THEN [users |-> users,
              resp |-> OAuthRefused("oauth_unlink", provider, 404,
                                    "User not found.")]
    ELSE [users |-> Put(users, token.id,
                        [users[token.id] EXCEPT
                            !.oauthLinked = [p \in Providers |-> None]]),
          resp |-> [route |-> "oauth_unlink", provider |-> provider,
                    gates |-> OAuthGates("oauth_unlink", 200),
                    status |-> 200,
                    detail |-> "Account unlinked successfully.",
                    access_token |-> None, refresh_token |-> None]]

\* GET /oauth/<provider>/unlink
oauth_unlink_provider(provider, bearer) ==
    LET token == verify_access_token(bearer) IN
    IF ~token.ok
        THEN [users |-> users,
              resp |-> OAuthRefused("oauth_unlink", provider, 401,
                                    "Unauthorized")]
    ELSE IF provider \notin configured
        THEN [users |-> users,
              resp |-> NotConfigured("oauth_unlink", provider)]
    ELSE IF token.id \notin DOMAIN users
        THEN [users |-> users,
              resp |-> OAuthRefused("oauth_unlink", provider, 404,
                                    "User not found.")]
    ELSE [users |-> Put(users, token.id,
                        [users[token.id] EXCEPT
                            !.oauthLinked[provider] = None]),
          resp |-> [route |-> "oauth_unlink", provider |-> provider,
                    gates |-> OAuthGates("oauth_unlink", 200),
                    status |-> 200,
                    detail |-> "Account unlinked successfully.",
                    access_token |-> None, refresh_token |-> None]]

OAuthCallback ==
    \E provider \in Providers, code \in Codes :
        LET r == oauth_callback(provider, code)
            profile == Profile(provider, code)
        IN
        /\ req' = [route |-> "oauth_callback", provider |-> provider,
                   code |-> code]
        /\ users' = r.users
        /\ resp' = r.resp
        /\ issued' = Keep(issued,
                          UNION {IssuedBy(r.resp, id) :
                              id \in LinkedUsers(users, provider, profile.id)})
        /\ UNCHANGED <<roles, now, ticks, configured, sessions>>

\* The linkage the holder of the bearer had for the provider when the
\* request arrived (kept with the request; the route does not return it).
HeldLinkage(provider, bearer) ==
    LET token == verify_access_token(bearer) IN
    IF token.ok /\ token.id \in DOMAIN users
        THEN users[token.id].oauthLinked[provider]
        ELSE None

OAuthLink ==
    \E provider \in Providers, code \in Codes, bearer \in RequestTokens :
        LET r == oauth_link_provider(provider, code, bearer) IN
        /\ req' = [route |-> "oauth_link", provider |-> provider,
                   code |-> code, token |-> bearer,
                   held |-> HeldLinkage(provider, bearer)]
        /\ users' = r.users
        /\ resp' = r.resp
        /\ UNCHANGED <<roles, now, ticks, issued, configured, sessions>>

OAuthUnlink ==
    \E provider \in Providers, bearer \in RequestTokens :
        LET r == oauth_unlink_provider(provider, bearer) IN
        /\ req' = [route |-> "oauth_unlink", provider |-> provider,
                   token |-> bearer,
                   held |-> HeldLinkage(provider, bearer)]
        /\ users' = r.users
        /\ resp' = r.resp
        /\ UNCHANGED <<roles, now, ticks, issued, configured, sessions>>

\* The store of InitUsers; one of the three providers is left out of the
\* configuration file.
InitOAuth ==
    /\ users = (1 :> DefaultUser) @@ (2 :> Alice(FALSE))
    /\ roles = DEFAULT_ROLES
    /\ now = 0
    /\ ticks = 0
    /\ issued = {}
    /\ configured \in {Providers \ {p} : p \in Providers}
    /\ sessions = NoSessions
    /\ req = NoRequest
    /\ resp = NoResponse

NextOAuth == LoginOk \/ OAuthCallback \/ OAuthLink \/ OAuthUnlink

SpecOAuth == InitOAuth /\ [][NextOAuth]_vars

\* The link and unlink routes with users being removed meanwhile: a token
\* outlives the record of its user.
NextUnlink == LoginOk \/ OAuthLink \/ OAuthUnlink \/ DeleteUser

SpecUnlink == InitOAuth /\ [][NextUnlink]_vars

(***************************************************************************)
(* The adapters against a provider that may fail: the token endpoint times *)
(* out, refuses the code, or answers without an access token; the profile  *)
(* endpoint times out or answers with an error.                            *)
(***************************************************************************)
PostAnswers(code) ==
    {TimedOut, TokenEndpoint(code),
     Response(200, [error |-> "temporarily_unavailable"]),
     Response(400, [error |-> "invalid_grant"]),
     Response(401, [error |-> "invalid_client"]),
     Response(500, [error |-> "server_error"])}

GetAnswers(code) ==
    {TimedOut, Response(200, [id |-> ExternalIdFor(code)]),
     Response(401, [error |-> "invalid_token"]),
     Response(500, [error |-> "server_error"])}

ExchangeCode ==
    \E provider \in configured, code \in Codes :
        \E post \in PostAnswers(code), answer \in GetAnswers(code) :
            LET get == ProfileEndpoint(code, answer) IN
            /\ req' = [route |-> "exchange_code_for_token",
                       provider |-> provider, code |-> code,
                       post |-> post, get |-> get]
            /\ resp' = [route |-> "exchange_code_for_token"]
                       @@ exchange_code_for_token(provider, code, post, get)
            /\ UNCHANGED <<users, roles, now, ticks, issued, configured, sessions>>

NextAdapters == ExchangeCode

SpecAdapters == InitUsers /\ [][NextAdapters]_vars

(***************************************************************************)
(* Login requests in flight together.  Each request has a database session *)
(* of its own: it reads the user row, verifies the password and decides,   *)
(* then commits; the commit writes the columns the request changed, all in *)
(* one transaction.  Another request may read or commit in between.        *)
(***************************************************************************)
\* The columns of each row that differ between the row read and the row
\* the handler left in its session.
Dirty(read, left) ==
    [id \in {i \in DOMAIN left : left[i] # read[i]} |->
        [f \in {g \in DOMAIN left[id] : left[id][g] # read[id][g]} |->
            left[id][f]]]

\* A commit that writes the failure counter and loses the other columns.
Commit_CounterAlone(store, written) ==
    [id \in DOMAIN store |->
        IF id \in DOMAIN written
            THEN [f \in DOMAIN store[id] |->
                     IF f \in DOMAIN written[id] /\ f = "failedLoginAttempts"
                         THEN written[id][f] ELSE store[id][f]]
            ELSE store[id]]

\* session.commit(): the UPDATE of the changed columns.
Commit(store, written) ==
    [id \in DOMAIN store |->
        IF id \in DOMAIN written
            THEN [f \in DOMAIN store[id] |->
                     IF f \in DOMAIN written[id]
                         THEN written[id][f] ELSE store[id][f]]
            ELSE store[id]]

BeginLogin(r) ==
    \E username \in Usernames, password \in Passwords, host \in ClientHosts,
       remember_me \in BOOLEAN, uuid \in UUIDs :
        LET out == request_access_token(username, password, host,
                                        remember_me, uuid)
        IN
        /\ sessions[r].pc = "idle"
        /\ sessions' = [sessions EXCEPT ![r] =
              [pc |-> "read",
               req |-> [route |-> "login", username |-> username,
                        password |-> password, host |-> host,
                        remember_me |-> remember_me],
               written |-> Dirty(users, out.users),
               resp |-> out.resp,
               given |-> UNION {IssuedBy(out.resp, id) :
                                   id \in UsersNamed(users, username)}]]
        /\ req' = [route |-> "begin_login", request |-> r]
        /\ resp' = [route |-> "begin_login", status |-> 0]
        /\ UNCHANGED <<users, roles, now, ticks, issued, configured>>

CommitLogin(r) ==
    /\ sessions[r].pc = "read"
    /\ users' = Commit(users, sessions[r].written)
    /\ req' = sessions[r].req
    /\ resp' = sessions[r].resp
    /\ issued' = Keep(issued, sessions[r].given)
    /\ sessions' = [sessions EXCEPT ![r] =
          [pc |-> "done", req |-> sessions[r].req, resp |-> sessions[r].resp]]
    /\ UNCHANGED <<roles, now, ticks, configured>>

NextRace == \E r \in Requests : BeginLogin(r) \/ CommitLogin(r)

SpecRace == Init /\ [][NextRace]_vars

(***************************************************************************)
(* user_handler called directly: create_user and update_user_info, each    *)
(* call a whole step.  The caller of update_user_info hands over the row   *)
(* it loaded (acquired_user) and a User object with the values wanted      *)
(* (updated_user); sqlmodel_update copies every field of the latter.       *)
(***************************************************************************)
\* Names of 4, 21 and 22 characters.
Name4 == <<"a", "_", "-", "9">>
Name21 ==
    <<"u", "s", "e", "r", "_", "0", "1", "2", "3", "4", "5", "6", "7", "8",
      "9", "-", "a", "b", "c", "d", "e">>
Name22 == Append(Name21, "f")
\* Passwords: 8 characters with all three classes, 7 characters, no
\* lowercase letter, no digit, no uppercase letter.
Str_Secret1A == <<"S", "e", "c", "r", "e", "t", "1", "A">>
Str_Secre1A == <<"S", "e", "c", "r", "e", "1", "A">>
Str_SECRET12 == <<"S", "E", "C", "R", "E", "T", "1", "2">>
Str_Secretab == <<"S", "e", "c", "r", "e", "t", "a", "b">>
Str_secret12 == <<"s", "e", "c", "r", "e", "t", "1", "2">>

HandlerUsernames ==
    {Str_admin, Str_alice, Str_bobby, Str_bob, Str_d_ve, Name4, Name21, Name22}
HandlerPasswords ==
    {Str_Secret1A, Str_Secre1A, Str_SECRET12, Str_Secretab, Str_secret12,
     Str_password}
UpdatedUsernames == {Str_admin, Str_alice, Str_bobby, Str_bob}
Emails == {None, Some("new@example.org")}

update_user_info(store, user_id, updated_user) ==
    IF UsersNamed(store, updated_user.username) # {}
        THEN [ok |-> FALSE, status |-> 409,
              detail |-> "Username already exists", users |-> store]
    ELSE IF ~validate_username(updated_user.username)
        THEN [ok |-> FALSE, status |-> 400, detail |-> "Invalid username",
              users |-> store]
    ELSE [ok |-> TRUE, status |-> 200, detail |-> "updated",
          users |-> Put(store, user_id, updated_user)]

\* The call would store a row: nothing that create_user tests refuses it.
Storable(store, new_user) ==
    /\ UsersNamed(store, new_user.username) = {}
    /\ validate_username(new_user.username)
    /\ validate_password(new_user.password)

CreateUserWith(usernames, passwords) ==
    \E username \in usernames, password \in passwords :
        LET new_user == [username |-> username, password |-> password,
                         roleId |-> 3]
            r == create_user(users, new_user)
        IN
        /\ Storable(users, new_user) => DOMAIN users # UserIds
        /\ req' = [route |-> "create_user", new_user |-> new_user]
        /\ users' = r.users
        /\ resp' = [route |-> "create_user", status |-> r.status,
                    failed |-> r.failed, detail |-> r.detail]
        /\ UNCHANGED <<roles, now, ticks, issued, configured, sessions>>

CreateUser == CreateUserWith(HandlerUsernames, HandlerPasswords)

UpdateUserInfoWith(usernames) ==
    \E user_id \in DOMAIN users, username \in usernames, email \in Emails :
        LET updated_user == [users[user_id] EXCEPT !.username = username,
                                                   !.email = email]
            r == update_user_info(users, user_id, updated_user)
        IN
        /\ req' = [route |-> "update_user_info", user_id |-> user_id,
                   updated_user |-> updated_user]
        /\ users' = r.users
        /\ resp' = [route |-> "update_user_info", status |-> r.status,
                    detail |-> r.detail]
        /\ UNCHANGED <<roles, now, ticks, issued, configured, sessions>>

UpdateUserInfo == UpdateUserInfoWith(UpdatedUsernames)

NextUserHandler == CreateUser \/ UpdateUserInfo

SpecUserHandler == InitUsers /\ [][NextUserHandler]_vars

(***************************************************************************)
(* Two calls of user_handler in flight together, each with a session of    *)
(* its own.  A call selects the rows with the username and validates, then *)
(* commits its INSERT or its UPDATE of the changed columns; the other call *)
(* may select or commit in between.  A call that raises is over at once.   *)
(***************************************************************************)
RaceUsernames == {Str_admin, Str_bobby}

BeginCreateUser(r) ==
    \E username \in RaceUsernames :
        LET new_user == [username |-> username, password |-> Str_Secret1A,
                         roleId |-> 3]
            out == create_user(users, new_user)
            request == [route |-> "create_user", new_user |-> new_user]
            response == [route |-> "create_user", status |-> out.status,
                         failed |-> out.failed, detail |-> out.detail]
        IN
        /\ sessions[r].pc = "idle"
        /\ Storable(users, new_user) => DOMAIN users # UserIds
        /\ sessions' = [sessions EXCEPT ![r] =
              IF out.ok
                  THEN [pc |-> "checked", req |-> request, resp |-> response,
                        added |-> out.users[out.id]]
                  ELSE [pc |-> "done", req |-> request, resp |-> response]]
        /\ req' = IF out.ok THEN [route |-> "begin", request |-> r]
                            ELSE request
        /\ resp' = IF out.ok THEN [route |-> "begin", status |-> 0]
                             ELSE response
        /\ UNCHANGED <<users, roles, now, ticks, issued, configured>>

\* session.add(user); session.commit(): the row gets an id not in use.
CommitCreateUser(r) ==
    /\ sessions[r].pc = "checked"
    /\ sessions[r].req.route = "create_user"
    /\ DOMAIN users # UserIds
    /\ users' = Put(users, FreshId(users), sessions[r].added)
    /\ req' = sessions[r].req
    /\ resp' = sessions[r].resp
    /\ sessions' = [sessions EXCEPT ![r] =
          [pc |-> "done", req |-> sessions[r].req, resp |-> sessions[r].resp]]
    /\ UNCHANGED <<roles, now, ticks, issued, configured>>

BeginUpdateUserInfo(r) ==
    \E user_id \in DOMAIN users, username \in RaceUsernames :
        LET updated_user == [users[user_id] EXCEPT !.username = username]
            out == update_user_info(users, user_id, updated_user)
            request == [route |-> "update_user_info", user_id |-> user_id,
                        updated_user |-> updated_user]
            response == [route |-> "update_user_info",
                         status |-> out.status, detail |-> out.detail]
        IN
        /\ sessions[r].pc = "idle"
        /\ sessions' = [sessions EXCEPT ![r] =
              IF out.ok
                  THEN [pc |-> "checked", req |-> request, resp |-> response,
                        written |-> Dirty(users, out.users)]
                  ELSE [pc |-> "done", req |-> request, resp |-> response]]
        /\ req' = IF out.ok THEN [route |-> "begin", request |-> r]
                            ELSE request
        /\ resp' = IF out.ok THEN [route |-> "begin", status |-> 0]
                             ELSE response
        /\ UNCHANGED <<users, roles, now, ticks, issued, configured>>

CommitUpdateUserInfo(r) ==
    /\ sessions[r].pc = "checked"
    /\ sessions[r].req.route = "update_user_info"
    /\ users' = Commit(users, sessions[r].written)
    /\ req' = sessions[r].req
    /\ resp' = sessions[r].resp
    /\ sessions' = [sessions EXCEPT ![r] =
          [pc |-> "done", req |-> sessions[r].req, resp |-> sessions[r].resp]]
    /\ UNCHANGED <<roles, now, ticks, issued, configured>>

NextUserHandlerRace ==
    \E r \in Requests :
        \/ BeginCreateUser(r)
        \/ CommitCreateUser(r)
        \/ BeginUpdateUserInfo(r)
        \/ CommitUpdateUserInfo(r)

SpecUserHandlerRace == InitUsers /\ [][NextUserHandlerRace]_vars

(***************************************************************************)
(* db_handler.populate_db, run when the server starts: the role table and  *)
(* the user table are looked at one after the other, each in a session of  *)
(* its own.  The default user is stored by create_user.                    *)
(***************************************************************************)
NoUsers == [id \in {} |-> DefaultUser]

\* populate_db reporting the roles it inserted and not the user.
populate_db_RolesReported(role_table, store) ==
    LET made == create_user(store, [username |-> Str_admin,
                                    password |-> Str_Secret123A,
                                    roleId |-> 1])
        seeded == IF role_table = {} THEN DEFAULT_ROLES ELSE role_table
    IN
    IF DOMAIN store # {}
        THEN [raised |-> FALSE, populated |-> role_table = {},
              roles |-> seeded, users |-> store]
    ELSE IF ~made.ok
        THEN [raised |-> TRUE, populated |-> FALSE,
              roles |-> seeded, users |-> store]
    ELSE [raised |-> FALSE, populated |-> role_table = {},
          roles |-> seeded, users |-> made.users]

populate_db(role_table, store) ==
    LET made == create_user(store, [username |-> Str_admin,
                                    password |-> Str_Secret123A,
                                    roleId |-> 1])
        seeded == IF role_table = {} THEN DEFAULT_ROLES ELSE role_table
    IN
    IF DOMAIN store # {}
        THEN [raised |-> FALSE, populated |-> role_table = {},
              roles |-> seeded, users |-> store]
    ELSE IF ~made.ok
        THEN [raised |-> TRUE, populated |-> FALSE,
              roles |-> seeded, users |-> store]
    ELSE [raised |-> FALSE, populated |-> TRUE,
          roles |-> seeded, users |-> made.users]

PopulateDb ==
    LET r == populate_db(roles, users) IN
    /\ req' = [route |-> "populate_db"]
    /\ roles' = r.roles
    /\ users' = r.users
    /\ resp' = [route |-> "populate_db", status |-> 0, raised |-> r.raised,
                populated |-> r.populated]
    /\ UNCHANGED <<now, ticks, issued, configured, sessions>>

\* Once populated the server takes requests: users are added and removed.
PopulatedCreateUser ==
    /\ roles # {}
    /\ CreateUserWith({Str_admin, Str_bobby, Str_carol}, {Str_Secret1A})

PopulatedDeleteUser ==
    /\ roles # {}
    /\ DeleteUser

\* A database with no table filled.
InitEmpty ==
    /\ users = NoUsers
    /\ roles = {}
    /\ now = 0
    /\ ticks = 0
    /\ issued = {}
    /\ configured = Providers
    /\ sessions = NoSessions
    /\ req = NoRequest
    /\ resp = NoResponse

NextPopulate == PopulateDb \/ PopulatedCreateUser \/ PopulatedDeleteUser

SpecPopulate == InitEmpty /\ [][NextPopulate]_vars

(***************************************************************************)
(* config_handler: the Authentication section of the configuration.  A     *)
(* key is a string of characters; an argument left out is None.  What a    *)
(* constructor raises is recorded with the object it would have built.     *)
(***************************************************************************)
\* tests/test_confighandler.py: keys of 64, 64 and 32 hexadecimal characters.
VALID_SIGNING_KEY ==
    <<"b", "5", "e", "e", "c", "a", "9", "5", "2", "0", "e", "2", "a",
      "d", "a", "4", "a", "d", "9", "6", "e", "1", "9", "8", "1", "d",
      "5", "c", "8", "f", "5", "5", "1", "5", "6", "8", "5", "2", "0",
      "1", "b", "f", "c", "2", "a", "1", "9", "a", "d", "1", "f", "b",
      "e", "e", "1", "2", "e", "f", "8", "b", "a", "5", "d", "2">>
VALID_REFRESH_SIGNING_KEY ==
    <<"c", "c", "2", "0", "b", "6", "2", "b", "b", "1", "1", "8", "5",
      "9", "a", "a", "2", "b", "4", "1", "4", "0", "f", "c", "1", "6",
      "4", "1", "f", "1", "1", "6", "5", "9", "b", "d", "b", "e", "8",
      "8", "6", "0", "f", "a", "a", "8", "c", "9", "6", "2", "9", "b",
      "e", "0", "0", "6", "d", "1", "6", "5", "a", "2", "6", "a">>
VALID_ENCRYPTION_KEY ==
    <<"7", "4", "9", "6", "9", "9", "5", "7", "b", "5", "a", "0", "0",
      "5", "1", "3", "3", "b", "3", "f", "1", "a", "b", "7", "d", "b",
      "b", "c", "e", "d", "c", "f">>
DEFAULT_VALUE ==
    <<"U", "P", "D", "A", "T", "E", "_", "T", "H", "I", "S", "_",
      "V", "A", "L", "U", "E">>

Shorter(key) == SubSeq(key, 1, Len(key) - 1)
Longer(key) == Append(key, "1")

\* `x or default` for a string and for an integer argument.
OrStr(x, default) == IF x = None \/ x = Some("") THEN default ELSE x[1]
OrInt(x, default) == IF x = None \/ x = Some(0) THEN default ELSE x[1]

Raised(error) == [raised |-> error, object |-> None]
Built(object) == [raised |-> "none", object |-> Some(object)]

\* Authentication.__init__ without the test for missing keys.
Authentication_NoneAccepted(kw) ==
    Built([signing_secret_key         |-> kw.signing_secret_key,
           refresh_signing_secret_key |-> kw.refresh_signing_secret_key,
           encryption_secret_key      |-> kw.encryption_secret_key,
           signing_algorithm    |-> OrStr(kw.signing_algorithm, "HS256"),
           encryption_algorithm |-> OrStr(kw.encryption_algorithm, "A256GCM"),
           encoding             |-> OrStr(kw.encoding, "utf-8"),
           access_token_expire_minutes |->
               OrInt(kw.access_token_expire_minutes, AccessTokenExpireMinutes),
           refresh_token_expire_minutes |->
               OrInt(kw.refresh_token_expire_minutes,
                     RefreshTokenExpireMinutes)])

\* Authentication.__init__ with the two default lifetimes exchanged.
Authentication_LifetimesExchanged(kw) ==
    IF \/ kw.signing_secret_key = None
       \/ kw.refresh_signing_secret_key = None
       \/ kw.encryption_secret_key = None
        THEN Raised("ValueError")
    ELSE
    Built([signing_secret_key         |-> kw.signing_secret_key[1],
           refresh_signing_secret_key |-> kw.refresh_signing_secret_key[1],
           encryption_secret_key      |-> kw.encryption_secret_key[1],
           signing_algorithm    |-> OrStr(kw.signing_algorithm, "HS256"),
           encryption_algorithm |-> OrStr(kw.encryption_algorithm, "A256GCM"),
           encoding             |-> OrStr(kw.encoding, "utf-8"),
           access_token_expire_minutes |->
               OrInt(kw.access_token_expire_minutes,
                     RefreshTokenExpireMinutes),
           refresh_token_expire_minutes |->
               OrInt(kw.refresh_token_expire_minutes,
                     AccessTokenExpireMinutes)])

\* Authentication.__init__
Authentication(kw) ==
    IF \/ kw.signing_secret_key = None
       \/ kw.refresh_signing_secret_key = None
       \/ kw.encryption_secret_key = None
        THEN Raised("ValueError")
    ELSE
    Built([signing_secret_key         |-> kw.signing_secret_key[1],
           refresh_signing_secret_key |-> kw.refresh_signing_secret_key[1],
           encryption_secret_key      |-> kw.encryption_secret_key[1],
           signing_algorithm    |-> OrStr(kw.signing_algorithm, "HS256"),
           encryption_algorithm |-> OrStr(kw.encryption_algorithm, "A256GCM"),
           encoding             |-> OrStr(kw.encoding, "utf-8"),
           access_token_expire_minutes |->
               OrInt(kw.access_token_expire_minutes, AccessTokenExpireMinutes),
           refresh_token_expire_minutes |->
               OrInt(kw.refresh_token_expire_minutes,
                     RefreshTokenExpireMinutes)])

\* Authentication(): every argument left out.
NoArguments ==
    [signing_secret_key |-> None, refresh_signing_secret_key |-> None,
     encryption_secret_key |-> None, signing_algorithm |-> None,
     encryption_algorithm |-> None, encoding |-> None,
     access_token_expire_minutes |-> None,
     refresh_token_expire_minutes |-> None]

\* AppConfig.__init__: `authentication or Authentication()`.  The other
\* sections are built from defaults and raise nothing.
AppConfig(authentication) ==
    IF authentication = None
        THEN LET made == Authentication(NoArguments) IN
             IF made.raised # "none"
                 THEN Raised(made.raised)
                 ELSE Built([authentication |-> made.object[1]])
        ELSE Built([authentication |-> authentication[1]])

\* read_config_file: `config` is the parsed "authentication" object of the
\* file.  The Authentication object is built before AppConfig is called.
read_config_file(config) ==
    LET made == Authentication(
            [signing_secret_key |-> Get(config, "signing_secret_key"),
             refresh_signing_secret_key |->
                 Get(config, "refresh_signing_secret_key"),
             encryption_secret_key |-> Get(config, "encryption_secret_key"),
             signing_algorithm |-> Get(config, "signing_algorithm"),
             encryption_algorithm |-> Get(config, "encryption_algorithm"),
             encoding |-> Get(config, "encoding"),
             access_token_expire_minutes |->
                 Get(config, "access_token_expire_minutes"),
             refresh_token_expire_minutes |->
                 Get(config, "refresh_token_expire_minutes")])
    IN
    IF made.raised # "none"
        THEN Raised(made.raised)
        ELSE AppConfig(made.object)

(***************************************************************************)
(* Configurations tried: each key is left out, is the placeholder, or is   *)
(* a string of hexadecimal characters of the right length or one off; the  *)
(* encryption key may also be the signing key.                             *)
(***************************************************************************)
KeyArguments(valid) ==
    {None, Some(DEFAULT_VALUE), Some(valid), Some(Shorter(valid)),
     Some(Longer(valid))}

KeyNames ==
    {"signing_secret_key", "refresh_signing_secret_key",
     "encryption_secret_key"}

ConfigFiles ==
    UNION {[present -> {VALID_SIGNING_KEY, VALID_ENCRYPTION_KEY,
                        DEFAULT_VALUE}] : present \in SUBSET KeyNames}

ConstructAuthentication ==
    \E signing \in KeyArguments(VALID_SIGNING_KEY),
       refresh \in KeyArguments(VALID_REFRESH_SIGNING_KEY),
       encryption \in KeyArguments(VALID_ENCRYPTION_KEY)
                         \cup {Some(VALID_SIGNING_KEY)},
       algorithm \in {None, Some("HS512")}, minutes \in {None, Some(15)} :
        LET kw == [NoArguments EXCEPT
                      !.signing_secret_key = signing,
                      !.refresh_signing_secret_key = refresh,
                      !.encryption_secret_key = encryption,
                      !.signing_algorithm = algorithm,
                      !.access_token_expire_minutes = minutes]
        IN
        /\ req' = [route |-> "Authentication", kw |-> kw]
        /\ resp' = [route |-> "Authentication"] @@ Authentication(kw)
        /\ UNCHANGED <<users, roles, now, ticks, issued, configured, sessions>>

\* AppConfig is given no authentication object, or the one built last.
ConstructAppConfig ==
    \E authentication \in
          {None} \cup (IF resp.route = "Authentication"
                          THEN {resp.object} ELSE {}) :
        /\ req' = [route |-> "AppConfig", authentication |-> authentication]
        /\ resp' = [route |-> "AppConfig"] @@ AppConfig(authentication)
        /\ UNCHANGED <<users, roles, now, ticks, issued, configured, sessions>>

ReadConfigFile ==
    \E config \in ConfigFiles :
        /\ req' = [route |-> "read_config_file", config |-> config]
        /\ resp' = [route |-> "read_config_file"] @@ read_config_file(config)
        /\ UNCHANGED <<users, roles, now, ticks, issued, configured, sessions>>

NextConfig == ConstructAuthentication \/ ConstructAppConfig \/ ReadConfigFile

SpecConfig == InitUsers /\ [][NextConfig]_vars

(***************************************************************************)
(* config_handler: the sections Debug, Logging, Database and Security, and *)
(* the optional arguments of Authentication.  A list is a sequence; the    *)
(* default log file path is given relative to the working directory.       *)
(***************************************************************************)
\* `x or default` for a boolean and for a list argument.
OrBool(x, default) == IF x = None \/ x = Some(FALSE) THEN default ELSE x[1]
OrList(x, default) == IF x = None \/ x = Some(<<>>) THEN default ELSE x[1]

\* Debug.__init__
Debug(kw) ==
    Built([enabled     |-> OrBool(kw.enabled, FALSE),
           use_test_db |-> OrBool(kw.use_test_db, FALSE)])

\* Logging.__init__
Logging(kw) ==
    Built([filepath     |-> OrStr(kw.filepath, "logs/centralserver-{0}.log"),
           max_bytes    |-> OrInt(kw.max_bytes, 10485760),
           backup_count |-> OrInt(kw.backup_count, 5),
           encoding     |-> OrStr(kw.encoding, "utf-8"),
           log_format   |->
               OrStr(kw.log_format,
                     "%(asctime)s:%(name)s:%(levelname)s:%(message)s"),
           date_format  |-> OrStr(kw.date_format, "%d-%m-%y_%H-%M-%S")])

\* Database.__init__
Database(kw) ==
    Built([db_type   |-> OrStr(kw.db_type, "mysql"),
           db_driver |-> OrStr(kw.db_driver, "pymysql"),
           username  |-> OrStr(kw.username, "root"),
           password  |-> OrStr(kw.password, ""),
           host      |-> OrStr(kw.host, "localhost"),
           port      |-> OrInt(kw.port, 3306),
           database  |-> OrStr(kw.database, "projectscars")])

\* Security.__init__
Security(kw) ==
    Built([allow_origins     |-> OrList(kw.allow_origins, <<"*">>),
           allow_credentials |-> OrBool(kw.allow_credentials, TRUE),
           allow_methods     |-> OrList(kw.allow_methods, <<"*">>),
           allow_headers     |-> OrList(kw.allow_headers, <<"*">>)])

\* Every argument of a constructor left out.
LeftOut(names) == [name \in names |-> None]

Flags == {None, Some(FALSE), Some(TRUE)}

ConstructDebug ==
    \E enabled \in Flags, use_test_db \in Flags :
        LET kw == [enabled |-> enabled, use_test_db |-> use_test_db] IN
        /\ req' = [route |-> "Debug", kw |-> kw]
        /\ resp' = [route |-> "Debug"] @@ Debug(kw)
        /\ UNCHANGED <<users, roles, now, ticks, issued, configured, sessions>>

ConstructLogging ==
    \E filepath \in {None, Some("server.log")},
       max_bytes \in {None, Some(0), Some(1024)},
       backup_count \in {None, Some(0), Some(3)},
       encoding \in {None, Some("ascii")} :
        LET kw == [LeftOut({"filepath", "max_bytes", "backup_count",
                            "encoding", "log_format", "date_format"})
                      EXCEPT !.filepath = filepath,
                             !.max_bytes = max_bytes,
                             !.backup_count = backup_count,
                             !.encoding = encoding]
        IN
        /\ req' = [route |-> "Logging", kw |-> kw]
        /\ resp' = [route |-> "Logging"] @@ Logging(kw)
        /\ UNCHANGED <<users, roles, now, ticks, issued, configured, sessions>>

ConstructDatabase ==
    \E db_type \in {None, Some("postgresql")},
       password \in {None, Some(""), Some("hunter2")},
       host \in {None, Some("db.internal")},
       port \in {None, Some(0), Some(5432)} :
        LET kw == [LeftOut({"db_type", "db_driver", "username", "password",
                            "host", "port", "database"})
                      EXCEPT !.db_type = db_type,
                             !.password = password,
                             !.host = host,
                             !.port = port]
        IN
        /\ req' = [route |-> "Database", kw |-> kw]
        /\ resp' = [route |-> "Database"] @@ Database(kw)
        /\ UNCHANGED <<users, roles, now, ticks, issued, configured, sessions>>

ConstructSecurity ==
    \E allow_origins \in {None, Some(<<>>), Some(<<"https://example.org">>)},
       allow_credentials \in Flags,
       allow_methods \in {None, Some(<<"GET", "POST">>)},
       allow_headers \in {None, Some(<<"Authorization">>)} :
        LET kw == [allow_origins |-> allow_origins,
                   allow_credentials |-> allow_credentials,
                   allow_methods |-> allow_methods,
                   allow_headers |-> allow_headers]
        IN
        /\ req' = [route |-> "Security", kw |-> kw]
        /\ resp' = [route |-> "Security"] @@ Security(kw)
        /\ UNCHANGED <<users, roles, now, ticks, issued, configured, sessions>>

\* Authentication with the three keys of the tests and optional arguments.
ConstructAuthenticationOptions ==
    \E algorithm \in {None, Some("HS512")}, encoding \in {None, Some("ascii")},
       minutes \in {None, Some(0), Some(15)} :
        LET kw == [NoArguments EXCEPT
                      !.signing_secret_key = Some(VALID_SIGNING_KEY),
                      !.refresh_signing_secret_key =
                          Some(VALID_REFRESH_SIGNING_KEY),
                      !.encryption_secret_key = Some(VALID_ENCRYPTION_KEY),
                      !.signing_algorithm = algorithm,
                      !.encoding = encoding,
                      !.access_token_expire_minutes = minutes]
        IN
        /\ req' = [route |-> "Authentication", kw |-> kw]
        /\ resp' = [route |-> "Authentication"] @@ Authentication(kw)
        /\ UNCHANGED <<users, roles, now, ticks, issued, configured, sessions>>

NextSections ==
    \/ ConstructDebug
    \/ ConstructLogging
    \/ ConstructDatabase
    \/ ConstructSecurity
    \/ ConstructAuthenticationOptions

SpecSections == InitUsers /\ [][NextSections]_vars

(***************************************************************************)
(* Properties of the login and refresh flow.                               *)
(***************************************************************************)
\* The account a login request names, if the store has one.
AccountOf(request) == UsersNamed(users, request.username)

IssuesNothing(response) ==
    /\ response.access_token = None
    /\ response.refresh_token = None
    /\ response.otp_nonce = None

\* The entries of the tokens the client holds that are past their lifetime.
Expired(e) == now > e.issued_at + e.ttl

\* C1 (as claimed): the kind of a token is always checked.  POST
\* /auth/refresh answers 200 only to a refresh-kind token, and a route
\* behind the access-only check answers a refresh-kind token with 401.
C1_KindAlwaysChecked ==
    /\ (resp.route = "refresh" /\ resp.status = 200) => req.token.is_refresh
    /\ (resp.route \notin {"none", "login", "refresh", "tick", "delete_user"}
        /\ "token" \in DOMAIN req /\ req.token.is_refresh)
            => resp.status = 401

C7_RefreshRechecksSubject ==
    resp.route = "refresh" =>
        /\ resp.status = 200 =>
              /\ verify_access_token(req.token).ok
              /\ req.token.sub \in DOMAIN users
        /\ resp.status # 200 =>
              /\ resp.status = 401
              /\ resp.access_token = None
        /\ req.token.sub \notin DOMAIN users => resp.status = 401

\* C7 witness: a token that verifies, of a user since removed, is refused.
C7_Witness ==
    /\ resp.route = "refresh"
    /\ verify_access_token(req.token).ok
    /\ req.token.sub \notin DOMAIN users
    /\ resp.status = 401
    /\ resp.access_token = None

\* C8: a login with the correct password of an account without verified OTP
\* (and not locked out) is answered 200 with an access token, and with a
\* refresh token exactly when remember_me was asked for.
C8_LoginTokens ==
    [][(req'.route = "login"
        /\ \E id \in AccountOf(req') :
              /\ CryptVerify(req'.password, users[id].password)
              /\ ~(users[id].otpSecret /\ users[id].otpVerified)
              /\ ~LockedOut(users[id]))
          => (/\ resp'.status = 200
              /\ resp'.access_token # None
              /\ resp'.otp_nonce = None
              /\ (resp'.refresh_token # None) <=> req'.remember_me)]_vars

\* C8 witness: a login with remember_me answered with both tokens.
C8_Witness ==
    /\ req.route = "login"
    /\ req.remember_me
    /\ resp.status = 200
    /\ resp.access_token # None
    /\ resp.refresh_token # None

C10_ExpiryFailsClosed ==
    /\ \A e \in issued :
          Expired(e) =>
              DecodeToken(e.token) = [ok |-> FALSE, error |-> "TokenExpired"]
    /\ (resp.route = "refresh"
        /\ \E e \in issued : e.token = req.token /\ Expired(e))
            => (resp.status = 401 /\ resp.access_token = None)

\* C10 witness: an expired refresh token was presented to POST /auth/refresh.
C10_Witness ==
    /\ resp.route = "refresh"
    /\ resp.status = 401
    /\ \E e \in issued :
          /\ e.token = req.token
          /\ e.refresh
          /\ Expired(e)
          /\ e.token.sig = Sign(KeyOf(TRUE), e.sub, e.token.exp, TRUE)

(***************************************************************************)
(* Properties of the account routes.                                       *)
(***************************************************************************)
AccountRoutes == {"create", "invite", "resend"}

Requester(request) == verify_access_token(request.token)

\* The requester is logged in and holds users:create.
MayCreate(request) ==
    /\ Requester(request).ok
    /\ verify_user_permission("users:create", users, Requester(request))

RequesterRole(request) == users[Requester(request).id].roleId

TargetKnown(request) ==
    request.route = "resend" => request.user_id \in DOMAIN users

TargetRole(request) ==
    IF request.route = "resend"
        THEN users[request.user_id].roleId
        ELSE request.new_user.roleId

\* The checks a route makes between the permission and the two role ids.
ReachesRankCheck(request) ==
    IF request.route = "resend"
        THEN /\ users[request.user_id].email # None
             /\ users[request.user_id].lastLoggedInTime = None
        ELSE request.new_user.roleId \in roles

\* C3 as stated: for every requester holding users:create, a request to
\* create_new_user, invite_user or resend_user_invitation whose target role
\* id is lower than the requester's fails with 403 and creates or modifies
\* no user; a target role id equal or higher, naming an existing role, is
\* not rejected by the rank check.
C3_LowerRoleForbidden ==
    [][(/\ req'.route \in AccountRoutes
        /\ MayCreate(req')
        /\ TargetKnown(req'))
       => /\ TargetRole(req') < RequesterRole(req')
              => (resp'.status = 403 /\ users' = users)
          /\ (TargetRole(req') >= RequesterRole(req')
              /\ TargetRole(req') \in roles)
              => resp'.failed # "role_rank"]_vars

\* C3 (amended): for every requester holding users:create, a request to
\* create_new_user, invite_user or resend_user_invitation whose target role
\* id is lower than the requester's fails and creates or modifies no user:
\* with 403 from the rank check when the checks made before it pass (the
\* role exists; for a resend, the target has an email address and never
\* logged in), with the 400 of the failing earlier check otherwise.  A
\* target role id equal or higher, naming an existing role, is not rejected
\* by the rank check.
C3_RankRule ==
    [][(/\ req'.route \in AccountRoutes
        /\ MayCreate(req')
        /\ TargetKnown(req'))
       => /\ TargetRole(req') < RequesterRole(req')
              => /\ resp'.status \in {400, 403}
                 /\ users' = users
                 /\ ReachesRankCheck(req')
                      => (resp'.status = 403 /\ resp'.failed = "role_rank")
                 /\ ~ReachesRankCheck(req') => resp'.status = 400
          /\ (TargetRole(req') >= RequesterRole(req')
              /\ TargetRole(req') \in roles)
              => resp'.failed # "role_rank"]_vars

\* A requester of role 2 holding users:create was refused a role-1 account.
C3_Witness ==
    /\ req.route = "create"
    /\ MayCreate(req)
    /\ TargetRole(req) < RequesterRole(req)
    /\ resp.status = 403
    /\ resp.failed = "role_rank"

\* C4: in create_new_user and invite_user the checks run in the order
\* permission, role existence, role rank, and the record is written only
\* after all three passed; whenever a check fails the request ends with an
\* error and the user store is what it was before the request.
C4_CreationOrder ==
    [][req'.route \in {"create", "invite"}
       => /\ users' # users
              => /\ MayCreate(req')
                 /\ TargetRole(req') \in roles
                 /\ TargetRole(req') >= RequesterRole(req')
                 /\ resp'.status \in {200, 201}
          /\ resp'.status >= 400 => users' = users
          /\ ~MayCreate(req') => resp'.failed \in {"token", "permission"}
          /\ (MayCreate(req') /\ TargetRole(req') \notin roles)
              => (resp'.failed = "role_exists" /\ resp'.status = 400)
          /\ (/\ MayCreate(req')
              /\ TargetRole(req') \in roles
              /\ TargetRole(req') < RequesterRole(req'))
              => (resp'.failed = "role_rank" /\ resp'.status = 403)
          /\ resp'.failed \in {"username_taken", "username_invalid",
                               "password_invalid", "none"}
              => /\ MayCreate(req')
                 /\ TargetRole(req') \in roles
                 /\ TargetRole(req') >= RequesterRole(req')]_vars

\* An invitation passed the three checks and the record was written.
C4_Witness ==
    /\ req.route = "invite"
    /\ resp.status = 200
    /\ resp.failed = "none"
    /\ \E id \in DOMAIN users :
          /\ users[id].username = req.new_user.username
          /\ users[id].password = Hash(Str_x7Kq2mPz9LbT)
          /\ users[id].roleId = req.new_user.roleId

(***************************************************************************)
(* Properties of the OAuth routes.                                         *)
(***************************************************************************)
Linkage(store) == [id \in DOMAIN store |-> store[id].oauthLinked]

ExternalIdOf(request) ==
    Profile(request.provider, request.code).id

\* No two local users hold the same external id of a provider.
LinkageUnique ==
    \A provider \in Providers, a \in DOMAIN users, b \in DOMAIN users :
        (/\ users[a].oauthLinked[provider] # None
         /\ users[a].oauthLinked[provider] = users[b].oauthLinked[provider])
        => a = b

C6_CallbackNeverLinks ==
    [][req'.route = "oauth_callback"
       => /\ DOMAIN users' = DOMAIN users
          /\ Linkage(users') = Linkage(users)
          /\ (/\ req'.provider \in configured
              /\ LinkedUsers(users, req'.provider, ExternalIdOf(req')) = {})
             => /\ resp'.status = 404
                /\ resp'.detail = "NotLinked"
                /\ resp'.access_token = None
                /\ resp'.refresh_token = None
          /\ resp'.access_token # None
             => /\ resp'.status = 200
                /\ req'.provider \in configured
                /\ \E id \in LinkedUsers(users, req'.provider,
                                         ExternalIdOf(req')) :
                      /\ verify_access_token(resp'.access_token[1]).ok
                      /\ verify_access_token(resp'.access_token[1]).id = id
       ]_vars

\* A callback for a profile nobody is linked to, after some user linked
\* another profile of the same provider.
C6_Witness ==
    /\ req.route = "oauth_callback"
    /\ req.provider \in configured
    /\ LinkedUsers(users, req.provider, ExternalIdOf(req)) = {}
    /\ resp.status = 404
    /\ \E id \in DOMAIN users : users[id].oauthLinked[req.provider] # None


(***************************************************************************)
(* Properties of the failure responses of the login route.                 *)
(***************************************************************************)
\* What the caller sees of a response.
Visible(response) == <<response.status, response.detail>>

\* The login was for a known account that is not locked, with a password
\* that is not the account's.
WrongPassword(request) ==
    /\ AccountOf(request) # {}
    /\ \A id \in AccountOf(request) :
          /\ ~LockedOut(users[id])
          /\ ~CryptVerify(request.password, users[id].password)

\* C11: a login with a known username and a wrong password, the account not
\* locked, is answered with the status and detail that the same request
\* gets, in the same state, with a username that names no account.
C11_NoUserEnumeration ==
    [][(req'.route = "login" /\ WrongPassword(req'))
       => \A unknown \in Usernames :
             UsersNamed(users, unknown) = {}
             => \A uuid \in UUIDs :
                   Visible(resp') =
                   Visible(request_access_token(unknown, req'.password,
                               req'.host, req'.remember_me, uuid).resp)
      ]_vars

\* A wrong password for a known account was answered 401 and counted,
\* while some username of the clients names no account.
C11_Witness ==
    /\ req.route = "login"
    /\ resp.status = 401
    /\ \E unknown \in Usernames : UsersNamed(users, unknown) = {}
    /\ \E id \in AccountOf(req) :
          /\ ~CryptVerify(req.password, users[id].password)
          /\ users[id].failedLoginAttempts = 1
          /\ users[id].lastFailedLoginTime = Some(now)


(***************************************************************************)
(* Properties of the configuration.                                        *)
(***************************************************************************)
HexDigits == Digits \cup {"a", "b", "c", "d", "e", "f"}

\* The argument is a string of n hexadecimal characters.
IsHex(argument, n) ==
    /\ argument # None
    /\ Len(argument[1]) = n
    /\ \A i \in DOMAIN argument[1] : argument[1][i] \in HexDigits

\* C12: Authentication with any one of the three keys absent raises
\* ValueError, and so do AppConfig built without an authentication object
\* and read_config_file on a file lacking any of the three keys.
C12_MissingKeysAbort ==
    /\ (req.route = "Authentication"
        /\ \E name \in KeyNames : req.kw[name] = None)
       => (resp.raised = "ValueError" /\ resp.object = None)
    /\ (req.route = "AppConfig" /\ req.authentication = None)
       => (resp.raised = "ValueError" /\ resp.object = None)
    /\ (req.route = "read_config_file"
        /\ ~(KeyNames \subseteq DOMAIN req.config))
       => (resp.raised = "ValueError" /\ resp.object = None)

\* A file with two of the three keys was read and ValueError was raised.
C12_Witness ==
    /\ req.route = "read_config_file"
    /\ DOMAIN req.config =
          {"signing_secret_key", "refresh_signing_secret_key"}
    /\ req.config["signing_secret_key"] = VALID_SIGNING_KEY
    /\ resp.raised = "ValueError"

\* C13: Authentication given the placeholder "UPDATE_THIS_VALUE" for any
\* one or for all of the three keys raises ValueError, whatever the other
\* keys are.
C13_PlaceholderRejected ==
    (req.route = "Authentication"
     /\ \E name \in KeyNames : req.kw[name] = Some(DEFAULT_VALUE))
    => resp.raised = "ValueError"

\* C14: Authentication given a signing or refresh-signing key of 63 or 65
\* characters, or an encryption key of 31 or 33 characters, raises
\* ValueError even when the other two keys are valid.
C14_WrongLengthRejected ==
    (/\ req.route = "Authentication"
     /\ \A name \in KeyNames : req.kw[name] # None
     /\ \/ Len(req.kw.signing_secret_key[1]) \in {63, 65}
        \/ Len(req.kw.refresh_signing_secret_key[1]) \in {63, 65}
        \/ Len(req.kw.encryption_secret_key[1]) \in {31, 33})
    => resp.raised = "ValueError"

\* C15: no Authentication object is built whose signing key equals its
\* encryption key.
C15_KeysDiffer ==
    (req.route = "Authentication" /\ resp.raised = "none")
    => resp.object[1].signing_secret_key
          # resp.object[1].encryption_secret_key

\* C16: Authentication given a signing key and a refresh signing key of 64
\* hexadecimal characters and an encryption key of 32 raises nothing,
\* stores the three keys unchanged, and gives the fields left out the
\* defaults HS256, A256GCM, utf-8, 30 and 10080 minutes.
C16_ValidKeysAccepted ==
    (req.route = "Authentication"
     /\ IsHex(req.kw.signing_secret_key, 64)
     /\ IsHex(req.kw.refresh_signing_secret_key, 64)
     /\ IsHex(req.kw.encryption_secret_key, 32))
    => /\ resp.raised = "none"
       /\ resp.object # None
       /\ LET made == resp.object[1] IN
          /\ Some(made.signing_secret_key) = req.kw.signing_secret_key
          /\ Some(made.refresh_signing_secret_key)
                = req.kw.refresh_signing_secret_key
          /\ Some(made.encryption_secret_key) = req.kw.encryption_secret_key
          /\ req.kw.signing_algorithm = None
                => made.signing_algorithm = "HS256"
          /\ req.kw.encryption_algorithm = None
                => made.encryption_algorithm = "A256GCM"
          /\ req.kw.encoding = None => made.encoding = "utf-8"
          /\ req.kw.access_token_expire_minutes = None
                => made.access_token_expire_minutes = 30
          /\ req.kw.refresh_token_expire_minutes = None
                => made.refresh_token_expire_minutes = 10080

\* The three keys of the tests were given and nothing else.
C16_Witness ==
    /\ req.route = "Authentication"
    /\ req.kw = [NoArguments EXCEPT
                    !.signing_secret_key = Some(VALID_SIGNING_KEY),
                    !.refresh_signing_secret_key =
                        Some(VALID_REFRESH_SIGNING_KEY),
                    !.encryption_secret_key = Some(VALID_ENCRYPTION_KEY)]
    /\ resp.raised = "none"


(***************************************************************************)
(* Properties of the adapters.                                             *)
(***************************************************************************)
Failing(answer) ==
    \/ answer.outcome = "timeout"
    \/ answer.status \notin 200..299

\* The answer of the profile endpoint to the bearer token the adapter sent.
ProfileAnswer(request) ==
    request.get[Get(request.post.body, "access_token")]

\* The token endpoint or the profile endpoint failed.
ProviderFailed(request) ==
    \/ Failing(request.post)
    \/ "access_token" \notin DOMAIN request.post.body
    \/ Failing(ProfileAnswer(request))

\* C17: when the token endpoint or the profile endpoint times out, answers
\* with a status that is not 2xx, or answers without an access_token,
\* exchange_code_for_token raises nothing and returns a failure value:
\* neither a profile nor the error body of the provider.
C17_ProviderFailuresContained ==
    (req.route = "exchange_code_for_token" /\ ProviderFailed(req))
    => /\ resp.raised = "none"
       /\ resp.returned # None
       /\ "id" \notin DOMAIN resp.returned[1]
       /\ "error" \notin DOMAIN resp.returned[1]


(***************************************************************************)
(* Properties of the credentials a user is left with.                      *)
(***************************************************************************)
\* The user can log in with a password or through some provider.
HasCredential(user) ==
    \/ user.password # None
    \/ \E provider \in Providers : user.oauthLinked[provider] # None

\* The linkage of the provider is the only credential of the user.
OnlyCredential(user, provider) ==
    /\ user.password = None
    /\ \A p \in Providers : user.oauthLinked[p] # None <=> p = provider

NoTornRecord ==
    \A id \in DOMAIN users :
        users[id].failedLoginAttempts > 0
        => users[id].lastFailedLoginTime # None

\* C19: when login requests for the same account are in flight together
\* and fail, in every interleaving the failure counted by each is in the
\* store when it has committed, so that after both at least one is, and no
\* state of the store has a counter without its timestamp.
C19_ConcurrentFailuresKept ==
    /\ NoTornRecord
    /\ [][/\ NoTornRecord'
          /\ (/\ resp'.route = "login"
              /\ resp'.status = 401
              /\ AccountOf(req') # {})
             => \A id \in AccountOf(req') :
                   /\ users'[id].failedLoginAttempts >= 1
                   /\ users'[id].lastFailedLoginTime # None
       ]_vars

\* Both requests failed for the same account, each having read the row
\* before the other committed: one failure is counted.
C19_Witness ==
    /\ resp.route = "login"
    /\ resp.status = 401
    /\ \A r \in Requests :
          /\ sessions[r].pc = "done"
          /\ sessions[r].req.username = req.username
          /\ sessions[r].resp.status = 401
    /\ \E id \in AccountOf(req) :
          /\ users[id].failedLoginAttempts = 1
          /\ users[id].lastFailedLoginTime = Some(now)


(***************************************************************************)
(* Properties of the gates before a write.                                 *)
(***************************************************************************)
ProtectedRoutes == {"create", "invite", "resend", "oauth_link", "oauth_unlink"}

\* C20: on every protected route (create, invite, resend-invite, and the
\* OAuth link and unlink routes) the token verification and a permission
\* check for the acting user have both passed before the user store is
\* written.
C20_CheckBeforeMutate ==
    [][(req'.route \in ProtectedRoutes /\ users' # users)
       => /\ verify_access_token(req'.token).ok
          /\ resp'.gates = {"token", "permission"}]_vars


(***************************************************************************)
(* Properties of what a login leaves on the user record.                   *)
(***************************************************************************)
\* C21: when the response of a password login without MFA is out, the
\* record of the account has a failure counter of 0, the time of the login
\* as last-login time and the host of the client as last-login IP.
C21_LoginSideEffects ==
    (resp.route = "login" /\ resp.status = 200 /\ resp.access_token # None)
    => \A id \in AccountOf(req) :
          /\ users[id].failedLoginAttempts = 0
          /\ users[id].lastLoggedInTime = Some(now)
          /\ users[id].lastLoggedInIp = req.host

\* A login succeeded for an account that had failed before.
C21_Witness ==
    /\ resp.route = "login"
    /\ resp.status = 200
    /\ resp.access_token # None
    /\ \E id \in AccountOf(req) :
          /\ users[id].lastFailedLoginTime # None
          /\ users[id].failedLoginAttempts = 0
          /\ users[id].lastLoggedInTime = Some(now)


\* C22: a login with the right password for an account with a verified OTP
\* secret answers with a message and a nonce only (no access token and no
\* refresh token, whatever remember_me is), stores that nonce on the record
\* with the expiry now + OtpNonceExpireMinutes, and leaves the last-login
\* time and IP of the record as they were.
C22_MfaChallenge ==
    [][(/\ req'.route = "login"
        /\ resp'.status = 200
        /\ \E id \in AccountOf(req') :
              users[id].otpSecret /\ users[id].otpVerified)
       => /\ resp'.detail = "MFA OTP is enabled"
          /\ resp'.access_token = None
          /\ resp'.refresh_token = None
          /\ resp'.otp_nonce \in {Some(uuid) : uuid \in UUIDs}
          /\ \A id \in AccountOf(req') :
                /\ users'[id].otpNonce = resp'.otp_nonce
                /\ users'[id].otpNonceExpires
                       = Some(now + OtpNonceExpireMinutes)
                /\ users'[id].lastLoggedInTime = users[id].lastLoggedInTime
                /\ users'[id].lastLoggedInIp = users[id].lastLoggedInIp]_vars

\* A login asking to be remembered was answered with an MFA challenge.
C22_Witness ==
    /\ req.route = "login"
    /\ req.remember_me
    /\ resp.status = 200
    /\ resp.otp_nonce # None
    /\ \E id \in AccountOf(req) :
          /\ users[id].otpVerified
          /\ users[id].otpNonce = resp.otp_nonce
          /\ users[id].lastLoggedInTime = None


(***************************************************************************)
(* Properties of repeated requests.                                        *)
(***************************************************************************)
\* C23: a link request for the (provider, external id) pair that the user of
\* the token holds already is answered without an error and leaves the user
\* store exactly as it was; the precondition then holds again, so the same
\* is true of every repetition.
C23_RelinkIdempotent ==
    [][(/\ req'.route = "oauth_link"
        /\ req'.provider \in configured
        /\ verify_access_token(req'.token).ok
        /\ verify_access_token(req'.token).id \in DOMAIN users
        /\ users[verify_access_token(req'.token).id]
               .oauthLinked[req'.provider] = Some(ExternalIdOf(req')))
       => /\ resp'.status = 200
          /\ users' = users
          /\ users'[verify_access_token(req'.token).id]
                 .oauthLinked[req'.provider] = Some(ExternalIdOf(req'))]_vars

\* A user linked again the external id the user held when the request came.
C23_Witness ==
    /\ req.route = "oauth_link"
    /\ resp.status = 200
    /\ req.held = Some(ExternalIdOf(req))
    /\ users[verify_access_token(req.token).id].oauthLinked[req.provider]
           = req.held


(***************************************************************************)
(* Properties of user_handler.                                             *)
(***************************************************************************)
\* C24: after any sequence of create_user and update_user_info calls, two
\* of them in flight together included, no two records of the store have
\* the same username.
C24_UsernamesUnique ==
    \A a \in DOMAIN users, b \in DOMAIN users :
        users[a].username = users[b].username => a = b


\* The conditions on a new user, character by character.
NameChars == Digits \cup LowerCase \cup UpperCase \cup {"_", "-"}

WellNamed(new_user) ==
    /\ Len(new_user.username) \in 4..21
    /\ \A i \in 1..Len(new_user.username) : new_user.username[i] \in NameChars

WellKeyed(new_user) ==
    /\ Len(new_user.password) >= 8
    /\ \E i \in 1..Len(new_user.password) : new_user.password[i] \in Digits
    /\ \E i \in 1..Len(new_user.password) : new_user.password[i] \in LowerCase
    /\ \E i \in 1..Len(new_user.password) : new_user.password[i] \in UpperCase

NameFree(new_user) ==
    \A id \in DOMAIN users : users[id].username # new_user.username

\* C25: create_user adds one record exactly when the username is not taken,
\* has 4 to 21 characters out of letters, digits, '_' and '-', and the
\* password has 8 characters or more with a digit, a lowercase and an
\* uppercase letter; the record holds the hash of the password and not the
\* password.  Otherwise it raises 409 for a taken username, else 400 for an
\* invalid username, else 400 for an invalid password, and the store stays
\* as it was.
C25_CreateUser ==
    [][req'.route = "create_user"
       => LET new_user == req'.new_user IN
          IF NameFree(new_user) /\ WellNamed(new_user) /\ WellKeyed(new_user)
              THEN /\ resp'.status = 201
                   /\ \E id \in DOMAIN users' \ DOMAIN users :
                         /\ DOMAIN users' = DOMAIN users \cup {id}
                         /\ users'[id].username = new_user.username
                         /\ users'[id].roleId = new_user.roleId
                         /\ users'[id].password # new_user.password
                         /\ CryptVerify(new_user.password, users'[id].password)
                   /\ \A id \in DOMAIN users : users'[id] = users[id]
              ELSE /\ users' = users
                   /\ resp'.status =
                          IF ~NameFree(new_user) THEN 409 ELSE 400
                   /\ resp'.detail =
                          IF ~NameFree(new_user)
                              THEN "Username already exists"
                          ELSE IF ~WellNamed(new_user)
                              THEN "Invalid username"
                          ELSE "Invalid password format"]_vars

\* create_user stored a user with a name of the greatest length allowed.
C25_Witness ==
    /\ req.route = "create_user"
    /\ resp.status = 201
    /\ Len(req.new_user.username) = 21
    /\ \E id \in DOMAIN users :
          /\ users[id].username = req.new_user.username
          /\ users[id].password = Hash(req.new_user.password)


\* C26: update_user_info with the username the acquired user already has
\* (no other record holds it) raises no 409 and stores the other fields of
\* the update.
C26_UpdateKeepingUsername ==
    [][(/\ req'.route = "update_user_info"
        /\ UsersNamed(users, req'.updated_user.username) = {req'.user_id})
       => /\ resp'.status # 409
          /\ users'[req'.user_id] = req'.updated_user]_vars


(***************************************************************************)
(* Properties of populate_db.                                              *)
(***************************************************************************)
\* C27: populate_db inserts the default roles only into an empty role
\* table and the default user, with role 1, only into an empty user table;
\* it returns True exactly when it inserted something; called again on what
\* it left, it returns False and changes neither table.
C27_PopulateIdempotent ==
    [][req'.route = "populate_db"
       => /\ ~resp'.raised
          /\ roles' = (IF roles = {} THEN DEFAULT_ROLES ELSE roles)
          /\ IF DOMAIN users = {}
                 THEN \E id \in UserIds :
                         /\ DOMAIN users' = {id}
                         /\ users'[id].roleId = 1
                 ELSE users' = users
          /\ resp'.populated <=> (roles' # roles \/ users' # users)
          /\ LET again == populate_db(roles', users') IN
                /\ ~again.populated
                /\ again.roles = roles'
                /\ again.users = users']_vars

\* populate_db ran on a database that was populated and returned False.
C27_Witness ==
    /\ req.route = "populate_db"
    /\ ~resp.populated
    /\ roles = DEFAULT_ROLES
    /\ \E id \in DOMAIN users : users[id].roleId = 1


(***************************************************************************)
(* Properties of the resend-invite route.                                  *)
(***************************************************************************)
\* The requester may have the invitation of the target sent again.
MayResend(request) ==
    LET token == Requester(request) IN
    /\ token.ok
    /\ token.id \in DOMAIN users
    /\ "users:create" \in ROLE_PERMISSIONS(users[token.id].roleId)
    /\ request.user_id \in DOMAIN users
    /\ users[request.user_id].email # None
    /\ users[request.user_id].lastLoggedInTime = None
    /\ users[request.user_id].roleId >= users[token.id].roleId

\* C28: resend_user_invitation replaces the password of the target and
\* schedules the invitation mail only when the requester holds users:create
\* and the target exists, has an email address, has never logged in and has
\* a role id not lower than the requester's; otherwise the request fails
\* (403, 404 or 400 once the token is accepted), no mail is scheduled and
\* the store is unchanged.  No resend request changes the password of a
\* user who has logged in.
C28_ResendOnlyBeforeLogin ==
    [][req'.route = "resend"
       => /\ IF MayResend(req')
                 THEN /\ resp'.status = 200
                      /\ resp'.mail # None
                      /\ resp'.mail[1].to = users[req'.user_id].email
                      /\ users' = Put(users, req'.user_id,
                                      [users[req'.user_id] EXCEPT
                                          !.password =
                                              Hash(resp'.mail[1].password)])
                 ELSE /\ resp'.mail = None
                      /\ users' = users
                      /\ resp'.status \in {401, 403, 404, 400}
                      /\ Requester(req').ok
                            => resp'.status \in {403, 404, 400}
          /\ \A id \in DOMAIN users :
                users[id].lastLoggedInTime # None
                => (id \in DOMAIN users'
                    /\ users'[id].password = users[id].password)]_vars

\* The invitation of a user who never logged in was sent again with a new
\* password, while another user, who has logged in, kept the password.
C28_Witness ==
    /\ req.route = "resend"
    /\ resp.status = 200
    /\ resp.mail # None
    /\ users[req.user_id].lastLoggedInTime = None
    /\ users[req.user_id].password = Hash(resp.mail[1].password)
    /\ users[req.user_id].password # Hash(Str_Secret123A)
    /\ \E id \in DOMAIN users :
          /\ users[id].lastLoggedInTime # None
          /\ users[id].password = Hash(Str_Secret123A)

\* A resend request for a user who has logged in was refused.
ResendRefusedAfterLogin ==
    /\ req.route = "resend"
    /\ resp.status = 400
    /\ req.user_id \in DOMAIN users
    /\ users[req.user_id].lastLoggedInTime # None


(***************************************************************************)
(* Properties of the unlink routes.                                        *)
(***************************************************************************)
\* C29: an unlink request answered 200 sets the linkage id of the token's
\* user for the provider of the route to null and changes nothing else: the
\* user's linkage ids for the other providers, the user's password and the
\* records of the other users are as before.  A request for a provider that
\* is not configured is answered 501, one with a token of a user without a
\* record 404, and both leave the store as it was.
C29_UnlinkFrame ==
    [][req'.route = "oauth_unlink"
       => LET token == verify_access_token(req'.token) IN
          /\ IF resp'.status = 200
                 THEN /\ token.ok
                      /\ token.id \in DOMAIN users
                      /\ DOMAIN users' = DOMAIN users
                      /\ users'[token.id].oauthLinked[req'.provider] = None
                      /\ \A provider \in Providers \ {req'.provider} :
                            users'[token.id].oauthLinked[provider]
                                = users[token.id].oauthLinked[provider]
                      /\ users'[token.id].password = users[token.id].password
                      /\ users'[token.id] =
                            [users[token.id] EXCEPT
                                !.oauthLinked[req'.provider] = None]
                      /\ \A id \in DOMAIN users \ {token.id} :
                            users'[id] = users[id]
                 ELSE users' = users
          /\ (token.ok /\ req'.provider \notin configured)
                => resp'.status = 501
          /\ (token.ok /\ req'.provider \in configured
                       /\ token.id \notin DOMAIN users)
                => resp'.status = 404
          /\ (token.ok /\ req'.provider \in configured
                       /\ token.id \in DOMAIN users)
                => resp'.status = 200]_vars

\* A user holding the ids of two providers unlinked one and kept the other.
C29_Witness ==
    /\ req.route = "oauth_unlink"
    /\ resp.status = 200
    /\ req.held # None
    /\ LET user == users[verify_access_token(req.token).id] IN
          /\ user.oauthLinked[req.provider] = None
          /\ \E provider \in Providers : user.oauthLinked[provider] # None

\* An unlink request came with the token of a user whose record is gone.
UnlinkOfMissingUser ==
    /\ req.route = "oauth_unlink"
    /\ resp.status = 404
    /\ verify_access_token(req.token).ok
    /\ verify_access_token(req.token).id \notin DOMAIN users

\* An unlink request came for a provider that is not configured.
UnlinkNotConfigured ==
    /\ req.route = "oauth_unlink"
    /\ resp.status = 501
    /\ req.provider \notin configured


(***************************************************************************)
(* Properties of the optional arguments of the configuration sections.     *)
(***************************************************************************)
Sections == {"Debug", "Logging", "Database", "Security", "Authentication"}

\* The value each optional argument stands for when it is left out.
Defaults(section) ==
    CASE section = "Debug" ->
            [enabled |-> FALSE, use_test_db |-> FALSE]
      [] section = "Logging" ->
            [filepath |-> "logs/centralserver-{0}.log",
             max_bytes |-> 10485760, backup_count |-> 5,
             encoding |-> "utf-8",
             log_format |-> "%(asctime)s:%(name)s:%(levelname)s:%(message)s",
             date_format |-> "%d-%m-%y_%H-%M-%S"]
      [] section = "Database" ->
            [db_type |-> "mysql", db_driver |-> "pymysql",
             username |-> "root", password |-> "", host |-> "localhost",
             port |-> 3306, database |-> "projectscars"]
      [] section = "Security" ->
            [allow_origins |-> <<"*">>, allow_credentials |-> TRUE,
             allow_methods |-> <<"*">>, allow_headers |-> <<"*">>]
      [] section = "Authentication" ->
            [signing_algorithm |-> "HS256", encryption_algorithm |-> "A256GCM",
             encoding |-> "utf-8",
             access_token_expire_minutes |-> AccessTokenExpireMinutes,
             refresh_token_expire_minutes |-> RefreshTokenExpireMinutes]

\* C30: every optional field of a constructed section holds the value the
\* caller supplied, and the default only when the caller supplied none; so
\* Security(allow_credentials=False) has allow_credentials False.
C30_SuppliedValuesHonoured ==
    (resp.route \in Sections /\ resp.raised = "none")
    => \A field \in DOMAIN Defaults(resp.route) :
          resp.object[1][field] =
              IF req.kw[field] = None
                  THEN Defaults(resp.route)[field]
                  ELSE req.kw[field][1]

\* Security(allow_credentials=False) has allow_credentials False.
SecurityCredentialsOff ==
    (resp.route = "Security" /\ req.kw.allow_credentials = Some(FALSE))
    => resp.object[1].allow_credentials = FALSE

=============================================================================
